---- MODULE Spec2Model ----
(***************************************************************************)
(* Model of the annuity-rate scrapers: the pagination loops of the browser *)
(* variant (paginated_selenium_scraper.py) and of the HTTP variant         *)
(* (annuity_scraper.py), the page signature, the deduplicator and the      *)
(* database save.                                                          *)
(*                                                                         *)
(* Encoding of Python values.  A str is the pair <<"s", chars>> where      *)
(* chars is the sequence of its characters; None is <<"n", <<>>>>.  A      *)
(* dictionary key is the sequence of the tokens it was built from: a       *)
(* column key is <<header>> and the link annotation of that column,        *)
(* f"{header}_links", is <<header, "_links">>.  A record (dict) is a       *)
(* function from keys to values.                                           *)
(***************************************************************************)
EXTENDS Integers, Sequences, FiniteSets, TLC

\* ------------------------------------------------------------- bounds

\* The most pages one crawl of the model requests (the code's page counter
\* is unbounded).
MaxCrawl == 4
\* The largest max_pages argument tried.
MaxCap == 3
\* The largest start_page argument tried (HTTP variant).
MaxStart == 2
\* The longest list handed to remove_duplicates on its own.
MaxLen == 3
\* The most header cells of an enumerated table (its data rows have up to
\* one cell more).
MaxCols == 2
\* The most data rows of an enumerated table.
MaxRows == 2
\* The most tables of a page built from the named tables.
MaxTables == 3
\* The longest list of raw rows handed to map_column_headers.
MaxMapRows == 2

\* ------------------------------------------------------- Python values

Str(chars) == <<"s", chars>>
NoneValue == <<"n", <<>>>>
IsStr(v) == v[1] = "s"
\* A list of link annotations, by its hrefs.
Links(hrefs) == <<"l", hrefs>>
\* An int, by its decimal digits.
Digits == <<"0", "1", "2", "3", "4", "5", "6", "7", "8", "9">>
PyInt(n) == <<"i", <<Digits[n + 1]>>>>

Min(a, b) == IF a < b THEN a ELSE b
Max(a, b) == IF a > b THEN a ELSE b

\* str.strip(): leading and trailing whitespace removed.
Whitespace == {" ", "\n"}
RECURSIVE LStrip(_)
LStrip(s) == IF s # <<>> /\ Head(s) \in Whitespace THEN LStrip(Tail(s)) ELSE s
RECURSIVE RStrip(_)
RStrip(s) ==
    IF s # <<>> /\ s[Len(s)] \in Whitespace
    THEN RStrip(SubSeq(s, 1, Len(s) - 1)) ELSE s
Strip(s) == RStrip(LStrip(s))

\* str(value) as an f-string formats it.
Format(v) == IF v = NoneValue THEN <<"None">> ELSE v[2]
\* repr(value) as str(list) prints it (no quote character is in the alphabet).
Repr(v) == IF IsStr(v) THEN <<"'">> \o v[2] \o <<"'">> ELSE Format(v)
ReprKey(k) == <<"'">> \o k \o <<"'">>

\* dict.get(key, '')
Get(row, key) == IF key \in DOMAIN row THEN row[key] ELSE Str(<<>>)

\* key.endswith('_links')
EndsWithLinks(key) == key # <<>> /\ key[Len(key)] = "_links"

RECURSIVE Concat(_)
Concat(seqs) == IF seqs = <<>> THEN <<>> ELSE Head(seqs) \o Concat(Tail(seqs))

\* sep.join(parts)
RECURSIVE Join(_, _)
Join(sep, parts) ==
    IF parts = <<>> THEN <<>>
    ELSE IF Len(parts) = 1 THEN parts[1]
    ELSE parts[1] \o sep \o Join(sep, Tail(parts))

\* ------------------------------------------------------------- keys

Name == <<"Company_Product_Name">>
Rate == <<"Current_Rate">>
Best == <<"AM_Best">>
NameLinks == <<"Company_Product_Name", "_links">>

\* Every key a mapped record can hold, in the order Python sorts the key
\* strings.
SortedKeys ==
    <<Best, <<"Base_Rate">>, <<"Commission">>, Name, NameLinks, Rate,
      <<"Free_Withdrawal_Yr1_Yr2">>, <<"GTD_Yield_Rate">>, <<"Last_Change">>,
      <<"Max_Issue_Age">>, <<"Min_Premium">>, <<"Premium_Bonus">>,
      <<"SC_Years">>, <<"Years">>>>

\* sorted(d.items()): the items of a dict in key order.
SortedItems(d) ==
    LET ks == SelectSeq(SortedKeys, LAMBDA k : k \in DOMAIN d)
    IN  [i \in 1..Len(ks) |-> <<ks[i], d[ks[i]]>>]

\* str(list of (key, value) tuples)
StrOfItems(items) ==
    <<"[">>
    \o Join(<<",", " ">>,
            [i \in 1..Len(items) |->
                <<"(">> \o ReprKey(items[i][1]) \o <<",", " ">>
                \o Repr(items[i][2]) \o <<")">>])
    \o <<"]">>

\* ------------------------------------------------------ deduplicator

\* The signature with the string values left as they are.
product_signature_NoStrip(row) ==
    [k \in {k \in DOMAIN row : ~EndsWithLinks(k)} |-> row[k]]

\* The signature with the link annotations left in.
product_signature_WithLinks(row) ==
    [k \in DOMAIN row |->
        IF IsStr(row[k]) THEN Str(Strip(row[k][2])) ELSE row[k]]

\* The per-row loop body of remove_duplicates: the dict of the non-link
\* fields, string values stripped.
product_signature(row) ==
    [k \in {k \in DOMAIN row : ~EndsWithLinks(k)} |->
        IF IsStr(row[k]) THEN Str(Strip(row[k][2])) ELSE row[k]]

signature_str(row) == StrOfItems(SortedItems(product_signature(row)))

\* The loop with the set of seen signatures emptied at every duplicate.
RECURSIVE DedupLoop_Forget(_, _, _)
DedupLoop_Forget(data, i, st) ==
    IF i > Len(data) THEN st
    ELSE LET sig == signature_str(data[i])
         IN  IF sig \notin st.seen_products
             THEN DedupLoop_Forget(data, i + 1,
                     [seen_products |-> st.seen_products \cup {sig},
                      unique_data |-> Append(st.unique_data, data[i]),
                      duplicates_removed |-> st.duplicates_removed])
             ELSE DedupLoop_Forget(data, i + 1,
                     [seen_products |-> {},
                      unique_data |-> st.unique_data,
                      duplicates_removed |-> st.duplicates_removed + 1])

RECURSIVE DedupLoop(_, _, _)
DedupLoop(data, i, st) ==
    IF i > Len(data) THEN st
    ELSE LET sig == signature_str(data[i])
         IN  IF sig \notin st.seen_products
             THEN DedupLoop(data, i + 1,
                     [seen_products |-> st.seen_products \cup {sig},
                      unique_data |-> Append(st.unique_data, data[i]),
                      duplicates_removed |-> st.duplicates_removed])
             ELSE DedupLoop(data, i + 1,
                     [st EXCEPT !.duplicates_removed = @ + 1])

DedupRun(data) ==
    DedupLoop(data, 1,
        [seen_products |-> {}, unique_data |-> <<>>, duplicates_removed |-> 0])

remove_duplicates(data) == DedupRun(data).unique_data

\* ---------------------------------------------------- page signature

SignaturePart(product) ==
    Format(Get(product, Name)) \o <<":">> \o Format(Get(product, Rate))

create_page_signature(page_data) ==
    IF page_data = <<>> THEN <<"empty">>
    ELSE LET n == Len(page_data)
             first == [i \in 1..Min(3, n) |-> SignaturePart(page_data[i])]
             lo == Max(3, n - 3)
             last == IF n > 6
                     THEN [i \in 1..(n - lo) |-> SignaturePart(page_data[lo + i])]
                     ELSE <<>>
         IN  Join(<<"|">>, first \o last)

\* ------------------------------------------------- pages of the site

\* Records as extract_table_data returns them in the browser variant: the
\* output of map_column_headers, whose keys are semantic names and whose
\* values are cell texts (already stripped by get_text(strip=True)).
Rec(name, rate, best) ==
    (Name :> Str(name)) @@ (Rate :> Str(rate)) @@ (Best :> Str(best))

rA == Rec(<<"A">>, <<"1">>, <<"x">>)
rB == Rec(<<"B">>, <<"2">>, <<"x">>)
rB2 == Rec(<<"B">>, <<"2">>, <<"y">>)
rC == Rec(<<"C">>, <<"3">>, <<"x">>)
\* A short row: no Current_Rate cell.
rD == (Name :> Str(<<"D">>)) @@ (Best :> Str(<<"x">>))

PgA == <<rA, rB>>
\* Same (name, rate) samples as PgA, other content.
PgA2 == <<rA, rB2>>
PgC == <<rC, rA, rC>>
\* Seven rows: the signature samples rows 1-3 and 5-7.
PgL == <<rA, rB, rC, rA, rB, rC, rD>>
\* Differs from PgL in row 4 only.
PgL2 == <<rA, rB, rC, rB2, rB, rC, rD>>
\* Differs from PgL in the last row only.
PgL3 == <<rA, rB, rC, rA, rB, rC, rA>>

BrowserPages == {PgA, PgA2, PgC, PgL, PgL2, PgL3}

\* What the site answers to one page request of the browser variant: a page
\* with rows, a page without rows, or a request/extraction exception.
BrowserOutcomes ==
    {[kind |-> "failed", rows |-> <<>>], [kind |-> "empty", rows |-> <<>>]}
    \cup {[kind |-> "data", rows |-> p] : p \in BrowserPages}

\* ------------------------------------------------------------- state

VARIABLES
    variant,                    \* "browser" | "http"
    max_pages,                  \* <<>> for None, <<n>> for the integer n
    start_page,
    pc,                         \* where the run stands
    page_num,                   \* page_num / current_page
    consecutive_empty_pages,
    last_page_data_signature,   \* NoneValue or Str(signature)
    all_data,
    page_data,                  \* what scrape_page returned
    result,                     \* what the entry point returned
    driver,                     \* "none" | "open" | "quit"
    log,                        \* history: logins, page requests, folds, pauses
    hist,                       \* history: the outcome of every page scraped
    db_calls,                   \* the statements the save sent to the server
    save_status,                \* "none" | "returned" | "raised"
    save_raised,                \* the statement that raised, or "none"
    dd_in,                      \* a list handed to remove_duplicates
    dd_out,                     \* remove_duplicates(dd_in)
    dd_again,                   \* remove_duplicates(dd_out)
    dd_removed,                 \* duplicates_removed at the end of the call
    dd_pad_in,                  \* dd_in with whitespace put around one value
    dd_pad_out,                 \* remove_duplicates(dd_pad_in)
    dd_pc,                      \* "off" | "input" | "once" | "twice" | "padded"
    ex_markup,                  \* the markup of a page handed to the extractors
    ex_raw,                     \* browser variant: all_data before the mapping
    ex_out,                     \* browser variant: extract_table_data's outcome
    ex_http,                    \* HTTP variant: extract_table_data's outcome
    ex_pc,                      \* "off" | "markup" | "browser" | "http" | ...
    mp_in,                      \* raw rows handed to map_column_headers
    mp_class,                   \* is_grouping_row of each of them
    mp_out,                     \* map_column_headers(mp_in)
    mp_pc,                      \* "off" | "input" | "classified" | "mapped"
    ty_col,                     \* the column whose type is worked out
    ty_data,                    \* the rows handed to the save functions
    ty_over,                    \* column_type_overrides
    ty_mysql,                   \* the column's type in CREATE TABLE, MySQL
    ty_mssql,                   \* the column's type in CREATE TABLE, SQL Server
    ty_again,                   \* ty_data in another order
    ty_mysql_again,             \* the MySQL type worked out from ty_again
    ty_mssql_again,             \* the SQL Server type worked out from ty_again
    ty_mysql_conv,              \* the type MySQL's conversion is handed
    ty_mssql_conv,              \* the type SQL Server's conversion is handed
    ty_mysql_values,            \* the column's values in MySQL's INSERT
    ty_mssql_values,            \* the column's values in SQL Server's INSERT
    ty_pc,                      \* "off" | "input" | "typed" | "reordered"
    sv_backend,                 \* "mysql" | "mssql": the save function called
    sv_data,                    \* the records handed to it
    sv_recreate,                \* recreate_table
    sv_before,                  \* the target table before the call
    sv_table,                   \* the target table
    sv_pc,                      \* "off" | "call" | "ended"
    cv_data,                    \* the records handed to save_to_csv
    cv_header,                  \* the header row it writes
    cv_pc                       \* "off" | "call" | "written" | "failed" | "nothing"

vars == <<variant, max_pages, start_page, pc, page_num, consecutive_empty_pages,
          last_page_data_signature, all_data, page_data, result, driver, log,
          hist, db_calls, save_status, save_raised, dd_in, dd_out, dd_again,
          dd_removed, dd_pad_in, dd_pad_out, dd_pc, ex_markup, ex_raw, ex_out,
          ex_http, ex_pc, mp_in, mp_class, mp_out, mp_pc, ty_col, ty_data,
          ty_over, ty_mysql, ty_mssql, ty_again, ty_mysql_again,
          ty_mssql_again, ty_mysql_conv, ty_mssql_conv, ty_mysql_values,
          ty_mssql_values, ty_pc, sv_backend, sv_data, sv_recreate,
          sv_before, sv_table, sv_pc, cv_data, cv_header, cv_pc>>

dbVars == <<db_calls, save_status, save_raised>>
ddVars == <<dd_in, dd_out, dd_again, dd_removed, dd_pad_in, dd_pad_out, dd_pc>>

exVars == <<ex_markup, ex_raw, ex_out, ex_http, ex_pc>>
mpVars == <<mp_in, mp_class, mp_out, mp_pc>>
tyVars == <<ty_col, ty_data, ty_over, ty_mysql, ty_mssql, ty_again,
           ty_mysql_again, ty_mssql_again, ty_mysql_conv, ty_mssql_conv,
           ty_mysql_values, ty_mssql_values, ty_pc>>
svVars == <<sv_backend, sv_data, sv_recreate, sv_before, sv_table, sv_pc>>
cvVars == <<cv_data, cv_header, cv_pc>>
labVars == <<exVars, mpVars, tyVars, svVars, cvVars>>

\* The extractors have not been handed anything.
NoOutcome == [raised |-> FALSE, rows |-> <<>>]
ExIdle ==
    /\ ex_markup = [parses |-> TRUE, tables |-> <<>>]
    /\ ex_raw = <<>> /\ ex_out = NoOutcome /\ ex_http = NoOutcome
    /\ ex_pc = "off"

MpIdle == mp_in = <<>> /\ mp_class = <<>> /\ mp_out = <<>> /\ mp_pc = "off"

\* The save functions have not been handed anything.
TyIdle ==
    /\ ty_col = <<>> /\ ty_data = <<>> /\ ty_over = <<>>
    /\ ty_mysql = "" /\ ty_mssql = "" /\ ty_again = <<>>
    /\ ty_mysql_again = "" /\ ty_mssql_again = "" /\ ty_pc = "off"
    /\ ty_mysql_conv = "" /\ ty_mssql_conv = ""
    /\ ty_mysql_values = <<>> /\ ty_mssql_values = <<>>

\* No table: the target table does not exist.
NoTable == [exists |-> FALSE, rows |-> <<>>]
\* The save functions have not been called.
SvIdle ==
    /\ sv_backend = "" /\ sv_data = <<>> /\ sv_recreate = TRUE
    /\ sv_before = NoTable /\ sv_table = NoTable /\ sv_pc = "off"

\* save_to_csv has not been called.
CvIdle == cv_data = <<>> /\ cv_header = <<>> /\ cv_pc = "off"

loopVars == <<page_num, consecutive_empty_pages, last_page_data_signature,
              all_data, page_data>>

\* One entry of the history log: "login" (arg: the pageNo of the address
\* login() opens, 0 for the address without one), "login_failed" right
\* after the "login" of a call that returned False, "get" (arg: the page
\* number scrape_page requests), "ajax" (arg: the number of the call),
\* "fold" (arg: the page number whose outcome the loop body took in) and
\* "sleep" (arg: the seconds of the pause between pages).
Ev(ev, arg) == [ev |-> ev, arg |-> arg]
List(rows) == [isNone |-> FALSE, rows |-> rows]
NonePage == [isNone |-> TRUE, rows |-> <<>>]
\* The log after a call of login() that opened the address of pageNo arg.
LoggedIn(arg, ok) ==
    IF ok THEN Append(log, Ev("login", arg))
    ELSE Append(Append(log, Ev("login", arg)), Ev("login_failed", 0))

\* Python truthiness of an Optional[int] and of an Optional[str].
TruthyInt(v) == v # <<>> /\ v[1] # 0
TruthyStr(v) == IsStr(v) /\ v[2] # <<>>

MaxPagesArgs == {<<>>} \cup {<<n>> : n \in 0..MaxCap}

Init ==
    /\ variant \in {"browser", "http"}
    /\ max_pages \in MaxPagesArgs
    /\ start_page \in (IF variant = "http" THEN 1..MaxStart ELSE {1})
    /\ pc = (IF variant = "browser" THEN "setup" ELSE "login")
    /\ page_num = start_page
    /\ consecutive_empty_pages = 0
    /\ last_page_data_signature = NoneValue
    /\ all_data = <<>>
    /\ page_data = List(<<>>)
    /\ result = <<>>
    /\ driver = "none"
    /\ log = <<>>
    /\ hist = <<>>
    /\ db_calls = <<>>
    /\ save_status = "none"
    /\ save_raised = "none"
    /\ dd_in = <<>> /\ dd_out = <<>> /\ dd_again = <<>> /\ dd_pc = "off"
    /\ dd_removed = 0 /\ dd_pad_in = <<>> /\ dd_pad_out = <<>>
    /\ ExIdle
    /\ MpIdle
    /\ TyIdle
    /\ SvIdle
    /\ CvIdle

\* --------------------------------------------- browser variant: run()

\* setup_driver(): the driver is assigned only when Chrome started.
B_SetupDriver ==
    /\ variant = "browser" /\ pc = "setup"
    /\ \E ok \in BOOLEAN :
        IF ok THEN driver' = "open" /\ pc' = "login" /\ result' = result
        ELSE driver' = driver /\ pc' = "close" /\ result' = <<>>
    /\ UNCHANGED <<labVars, ddVars, dbVars, variant, max_pages, start_page, loopVars, log, hist>>

\* login(): it opens "{base_url}?pageNo=1" for the form, and gives True or
\* False (an exception inside it is caught and gives False).
B_Login ==
    /\ variant = "browser" /\ pc = "login"
    /\ \E ok \in BOOLEAN :
        /\ log' = LoggedIn(1, ok)
        /\ IF ok THEN pc' = "loop" /\ result' = result
           ELSE pc' = "close" /\ result' = <<>>
    /\ UNCHANGED <<labVars, ddVars, dbVars, variant, max_pages, start_page, loopVars, driver, hist>>

\* close(), run in the finally clause of run().
B_Close ==
    /\ variant = "browser" /\ pc = "close"
    /\ driver' = (IF driver = "open" THEN "quit" ELSE driver)
    /\ pc' = "done"
    /\ UNCHANGED <<labVars, ddVars, dbVars, variant, max_pages, start_page, loopVars, result, log, hist>>

\* ---------------------------------- browser variant: scrape_all_pages

\* scrape_page(page_num): the try body returns the extracted rows, the
\* except clause returns [].
browser_scrape_page(outcome) ==
    IF outcome.kind = "failed" THEN <<>> ELSE outcome.rows

B_ScrapePage ==
    /\ variant = "browser" /\ pc = "loop"
    /\ Len(hist) < MaxCrawl
    /\ \E o \in BrowserOutcomes :
        /\ page_data' = List(browser_scrape_page(o))
        /\ hist' = Append(hist, [page |-> page_num, kind |-> o.kind, rows |-> o.rows])
    /\ log' = Append(log, Ev("get", page_num))
    /\ pc' = "fold"
    /\ UNCHANGED <<labVars, ddVars, dbVars, variant, max_pages, start_page, page_num,
                   consecutive_empty_pages, last_page_data_signature, all_data,
                   result, driver>>

\* "if last_page_data_signature and page_signature == last_page_data_signature"
IsRepeatedPage(last, page_signature) ==
    TruthyStr(last) /\ Str(page_signature) = last

\* The stop for emptiness one page late.
TooManyEmpty_Late(n) == n > 3
\* "if consecutive_empty_pages >= 3"
TooManyEmpty(n) == n >= 3

\* The cap tested one page late.
MaxPagesReached_Late(mp, p) == TruthyInt(mp) /\ p > mp[1]
\* "if max_pages and page_num >= max_pages"
MaxPagesReached(mp, p) == TruthyInt(mp) /\ p >= mp[1]

\* The loop body with the rows appended before the repeated-page test.
BrowserFold_AppendFirst(all, empties, last, mp, p, rows) ==
    LET page_signature == create_page_signature(rows)
        after == IF MaxPagesReached(mp, p) THEN "dedup" ELSE "sleep"
    IN  IF rows # <<>>
        THEN IF IsRepeatedPage(last, page_signature)
             THEN [all_data |-> all \o rows, consecutive_empty_pages |-> empties,
                   last_page_data_signature |-> last, pc |-> "dedup"]
             ELSE [all_data |-> all \o rows, consecutive_empty_pages |-> 0,
                   last_page_data_signature |-> Str(page_signature),
                   pc |-> after]
        ELSE [all_data |-> all, consecutive_empty_pages |-> empties + 1,
              last_page_data_signature |-> last,
              pc |-> IF TooManyEmpty(empties + 1) THEN "dedup" ELSE after]

\* One pass through the body of the while loop after scrape_page returned
\* rows, up to the break or to the pause: the new values of the loop's
\* variables and where the loop goes ("dedup": break, "sleep": line 472).
BrowserFold(all, empties, last, mp, p, rows) ==
    LET page_signature == create_page_signature(rows)
        after == IF MaxPagesReached(mp, p) THEN "dedup" ELSE "sleep"
    IN  IF rows # <<>>
        THEN IF IsRepeatedPage(last, page_signature)
             THEN [all_data |-> all, consecutive_empty_pages |-> empties,
                   last_page_data_signature |-> last, pc |-> "dedup"]
             ELSE [all_data |-> all \o rows, consecutive_empty_pages |-> 0,
                   last_page_data_signature |-> Str(page_signature),
                   pc |-> after]
        ELSE [all_data |-> all, consecutive_empty_pages |-> empties + 1,
              last_page_data_signature |-> last,
              pc |-> IF TooManyEmpty(empties + 1) THEN "dedup" ELSE after]

\* The except clause of the loop (lines 475-485) has no action: the only
\* call of the try body that touches the site is scrape_page, which catches
\* every Exception itself and returns [], so no outcome of a page reaches it.
B_Fold ==
    /\ variant = "browser" /\ pc = "fold"
    /\ LET r == BrowserFold(all_data, consecutive_empty_pages,
                            last_page_data_signature, max_pages, page_num,
                            page_data.rows)
       IN  /\ all_data' = r.all_data
           /\ consecutive_empty_pages' = r.consecutive_empty_pages
           /\ last_page_data_signature' = r.last_page_data_signature
           /\ pc' = r.pc
    /\ log' = Append(log, Ev("fold", page_num))
    /\ UNCHANGED <<labVars, ddVars, dbVars, variant, max_pages, start_page, page_num, page_data, result,
                   driver, hist>>

\* The next page without the pause.
B_Advance_NoPause ==
    /\ variant = "browser" /\ pc = "sleep"
    /\ page_num' = page_num + 1
    /\ pc' = "loop"
    /\ UNCHANGED <<labVars, ddVars, dbVars, variant, max_pages, start_page, consecutive_empty_pages,
                   last_page_data_signature, all_data, page_data, result, driver,
                   log, hist>>

\* "time.sleep(1); page_num += 1"
B_Advance ==
    /\ variant = "browser" /\ pc = "sleep"
    /\ log' = Append(log, Ev("sleep", 1))
    /\ page_num' = page_num + 1
    /\ pc' = "loop"
    /\ UNCHANGED <<labVars, ddVars, dbVars, variant, max_pages, start_page, consecutive_empty_pages,
                   last_page_data_signature, all_data, page_data, result, driver,
                   hist>>

\* The accumulator returned as it is.
B_Finish_NoDedup ==
    /\ variant = "browser" /\ pc = "dedup"
    /\ result' = all_data
    /\ pc' = "close"
    /\ UNCHANGED <<labVars, ddVars, dbVars, variant, max_pages, start_page, loopVars, driver, log, hist>>

\* After the loop: "unique_data = self.remove_duplicates(all_data); return".
B_Finish ==
    /\ variant = "browser" /\ pc = "dedup"
    /\ result' = remove_duplicates(all_data)
    /\ pc' = "close"
    /\ UNCHANGED <<labVars, ddVars, dbVars, variant, max_pages, start_page, loopVars, driver, log, hist>>

\* ------------------------------------------------------ HTTP variant

\* Rows as the HTTP variant's extract_table_data returns them: header texts
\* as keys, plus table_index and row_index.
TableIndex == <<"table_index">>
RowIndex == <<"row_index">>
PageNumber == <<"page_number">>
Company == <<"Company">>

HRow(company, row_idx) ==
    (TableIndex :> PyInt(0)) @@ (RowIndex :> PyInt(row_idx)) @@ (Company :> Str(company))

HPg1 == <<HRow(<<"A">>, 0), HRow(<<"B">>, 1)>>
HPg2 == <<HRow(<<"A">>, 0)>>

\* What extract_table_data finds in a response: rows, or none.
HttpContents == {<<>>, HPg1, HPg2}

\* max_consecutive_empty = 3
max_consecutive_empty == 3

HistEntry(p, pd) ==
    [page |-> p,
     kind |-> IF pd.isNone THEN "failed" ELSE IF pd.rows = <<>> THEN "empty" ELSE "data",
     rows |-> pd.rows]

\* scrape_all_pages starts with login(); a failed login returns [].
H_Login ==
    /\ variant = "http" /\ pc = "login"
    /\ \E ok \in BOOLEAN :
        /\ log' = LoggedIn(0, ok)
        /\ IF ok THEN pc' = "loop" /\ result' = result
           ELSE pc' = "done" /\ result' = <<>>
    /\ UNCHANGED <<labVars, ddVars, dbVars, variant, max_pages, start_page, loopVars, driver, hist>>

\* "if max_pages and current_page > start_page + max_pages - 1"
HttpMaxPagesReached(mp, start, current) ==
    TruthyInt(mp) /\ current > start + mp[1] - 1

\* The top of the while loop when the cap is reached: break.
H_Break ==
    /\ variant = "http" /\ pc = "loop"
    /\ HttpMaxPagesReached(max_pages, start_page, page_num)
    /\ pc' = "return"
    /\ UNCHANGED <<labVars, ddVars, dbVars, variant, max_pages, start_page, loopVars, result, driver,
                   log, hist>>

\* scrape_page(page_no) up to the first response: an exception or a non-200
\* status gives None, a redirect to the login page starts a re-login, any
\* other response is extracted.
H_Get ==
    /\ variant = "http" /\ pc = "loop"
    /\ ~HttpMaxPagesReached(max_pages, start_page, page_num)
    /\ Len(hist) < MaxCrawl
    /\ log' = Append(log, Ev("get", page_num))
    /\ \/ /\ \E why \in {"exception", "non200"} : page_data' = NonePage
          /\ hist' = Append(hist, HistEntry(page_num, NonePage))
          /\ pc' = "fold"
       \/ /\ pc' = "relogin"
          /\ UNCHANGED <<page_data, hist>>
       \/ \E rows \in HttpContents :
             /\ page_data' = List(rows)
             /\ hist' = Append(hist, HistEntry(page_num, List(rows)))
             /\ pc' = "fold"
    /\ UNCHANGED <<labVars, ddVars, dbVars, variant, max_pages, start_page, page_num,
                   consecutive_empty_pages, last_page_data_signature, all_data,
                   result, driver>>

\* The re-login with the page requested again whatever login() returned.
H_Relogin_GetAnyway ==
    /\ variant = "http" /\ pc = "relogin"
    /\ \E ok \in BOOLEAN : log' = LoggedIn(0, ok)
    /\ pc' = "reget"
    /\ UNCHANGED <<labVars, ddVars, dbVars, variant, max_pages, start_page, page_num,
                   consecutive_empty_pages, last_page_data_signature, all_data,
                   page_data, hist, result, driver>>

\* "if self.login(): response = self.session.get(url)  else: return None"
H_Relogin ==
    /\ variant = "http" /\ pc = "relogin"
    /\ \E ok \in BOOLEAN :
        /\ log' = LoggedIn(0, ok)
        /\ IF ok THEN pc' = "reget" /\ UNCHANGED <<page_data, hist>>
           ELSE /\ page_data' = NonePage
                /\ hist' = Append(hist, HistEntry(page_num, NonePage))
                /\ pc' = "fold"
    /\ UNCHANGED <<labVars, ddVars, dbVars, variant, max_pages, start_page, page_num,
                   consecutive_empty_pages, last_page_data_signature, all_data,
                   result, driver>>

\* The second request of the page after a re-login: its response is
\* extracted whatever its status; an exception gives None.
H_ReGet ==
    /\ variant = "http" /\ pc = "reget"
    /\ log' = Append(log, Ev("get", page_num))
    /\ \E pd \in {NonePage} \cup {List(rows) : rows \in HttpContents} :
        /\ page_data' = pd
        /\ hist' = Append(hist, HistEntry(page_num, pd))
    /\ pc' = "fold"
    /\ UNCHANGED <<labVars, ddVars, dbVars, variant, max_pages, start_page, page_num,
                   consecutive_empty_pages, last_page_data_signature, all_data,
                   result, driver>>

\* "for row in page_data: row['page_number'] = current_page"
WithPageNumber(rows, current) ==
    [i \in 1..Len(rows) |-> (PageNumber :> PyInt(current)) @@ rows[i]]

\* The loop body with a failed page (None) left uncounted.
HttpFold_NoneIgnored(all, empties, current, pd) ==
    LET folded ==
            IF pd.isNone
            THEN [all_data |-> all, consecutive_empty_pages |-> empties]
            ELSE IF Len(pd.rows) = 0
            THEN [all_data |-> all, consecutive_empty_pages |-> empties + 1]
            ELSE [all_data |-> all \o WithPageNumber(pd.rows, current),
                  consecutive_empty_pages |-> 0]
    IN  [all_data |-> folded.all_data,
         consecutive_empty_pages |-> folded.consecutive_empty_pages,
         pc |-> IF folded.consecutive_empty_pages >= max_consecutive_empty
                THEN "return" ELSE "sleep"]

\* The body of the while loop after scrape_page returned pd, up to the break
\* or to "current_page += 1".
HttpFold(all, empties, current, pd) ==
    LET folded ==
            IF pd.isNone
            THEN [all_data |-> all, consecutive_empty_pages |-> empties + 1]
            ELSE IF Len(pd.rows) = 0
            THEN [all_data |-> all, consecutive_empty_pages |-> empties + 1]
            ELSE [all_data |-> all \o WithPageNumber(pd.rows, current),
                  consecutive_empty_pages |-> 0]
    IN  [all_data |-> folded.all_data,
         consecutive_empty_pages |-> folded.consecutive_empty_pages,
         pc |-> IF folded.consecutive_empty_pages >= max_consecutive_empty
                THEN "return" ELSE "sleep"]

H_Fold ==
    /\ variant = "http" /\ pc = "fold"
    /\ LET r == HttpFold(all_data, consecutive_empty_pages, page_num, page_data)
       IN  /\ all_data' = r.all_data
           /\ consecutive_empty_pages' = r.consecutive_empty_pages
           /\ pc' = r.pc
    /\ log' = Append(log, Ev("fold", page_num))
    /\ UNCHANGED <<labVars, ddVars, dbVars, variant, max_pages, start_page, page_num,
                   last_page_data_signature, page_data, result, driver, hist>>

\* The next page skipping one page number.
H_Advance_Skip ==
    /\ variant = "http" /\ pc = "sleep"
    /\ page_num' = page_num + 2
    /\ log' = Append(log, Ev("sleep", 1))
    /\ pc' = "loop"
    /\ UNCHANGED <<labVars, ddVars, dbVars, variant, max_pages, start_page, consecutive_empty_pages,
                   last_page_data_signature, all_data, page_data, result, driver,
                   hist>>

\* "current_page += 1; time.sleep(1)"
H_Advance ==
    /\ variant = "http" /\ pc = "sleep"
    /\ page_num' = page_num + 1
    /\ log' = Append(log, Ev("sleep", 1))
    /\ pc' = "loop"
    /\ UNCHANGED <<labVars, ddVars, dbVars, variant, max_pages, start_page, consecutive_empty_pages,
                   last_page_data_signature, all_data, page_data, result, driver,
                   hist>>

\* "return all_data"
H_Return ==
    /\ variant = "http" /\ pc = "return"
    /\ result' = all_data
    /\ pc' = "done"
    /\ UNCHANGED <<labVars, ddVars, dbVars, variant, max_pages, start_page, loopVars, driver, log, hist>>

\* ------------------------------------------ the caller and the save

\* scrape_and_load.main(): "if not data: return" after scraper.run().
M_NoData ==
    /\ variant = "browser" /\ pc = "done"
    /\ result = <<>>
    /\ pc' = "exit"
    /\ UNCHANGED <<labVars, ddVars, dbVars, variant, max_pages, start_page, loopVars, result,
                   driver, log, hist>>

\* The statements of save_annuity_data_to_mysql, in order: _connect, DROP
\* TABLE (recreate_table=True, as main passes it), CREATE TABLE, the one
\* executemany INSERT, commit.
SaveSteps == <<"connect", "drop", "create", "insert", "commit">>

\* A save that sends a failed statement a second time.
SaveRun_Retry(k) ==
    [db_calls |-> IF k = 0 THEN SaveSteps
                  ELSE Append(SubSeq(SaveSteps, 1, k), SaveSteps[k]),
     save_status |-> IF k = 0 THEN "returned" ELSE "raised",
     save_raised |-> IF k = 0 THEN "none" ELSE SaveSteps[k]]

\* A save in which statement k raises (k = 0: none does): the statements
\* sent, and how the function ends ("except mysql.connector.Error: raise").
SaveRun(k) ==
    [db_calls |-> IF k = 0 THEN SaveSteps ELSE SubSeq(SaveSteps, 1, k),
     save_status |-> IF k = 0 THEN "returned" ELSE "raised",
     save_raised |-> IF k = 0 THEN "none" ELSE SaveSteps[k]]

\* main(): save_fn(data, db_config, table_name="annuities",
\* recreate_table=True); an exception of the save leaves main.
S_Save ==
    /\ variant = "browser" /\ pc = "done"
    /\ result # <<>>
    /\ \E k \in 0..Len(SaveSteps) :
        /\ db_calls' = SaveRun(k).db_calls
        /\ save_status' = SaveRun(k).save_status
        /\ save_raised' = SaveRun(k).save_raised
    /\ pc' = "exit"
    /\ UNCHANGED <<labVars, ddVars, variant, max_pages, start_page, loopVars, result, driver,
                   log, hist>>

Next ==
    \/ B_SetupDriver
    \/ B_Login
    \/ B_ScrapePage
    \/ B_Fold
    \/ B_Advance
    \/ B_Finish
    \/ B_Close
    \/ H_Login
    \/ H_Break
    \/ H_Get
    \/ H_Relogin
    \/ H_ReGet
    \/ H_Fold
    \/ H_Advance
    \/ H_Return
    \/ M_NoData
    \/ S_Save

Spec == Init /\ [][Next]_vars

\* ------------- run() left by an exception, and the other two scrapers

\* The two scrapers that drive a browser: the paginated one and
\* SeleniumAnnuityRateWatchScraper.
BrowserVariants == {"browser", "selenium"}

InitRun ==
    /\ variant \in {"browser", "http", "selenium", "ajax"}
    /\ max_pages \in (IF variant \in {"browser", "http"} THEN {<<>>, <<1>>}
                      ELSE {<<>>})
    /\ start_page = 1
    /\ pc = (IF variant \in BrowserVariants THEN "setup" ELSE "login")
    /\ page_num = start_page
    /\ consecutive_empty_pages = 0
    /\ last_page_data_signature = NoneValue
    /\ all_data = <<>>
    /\ page_data = List(<<>>)
    /\ result = <<>>
    /\ driver = "none"
    /\ log = <<>>
    /\ hist = <<>>
    /\ db_calls = <<>>
    /\ save_status = "none"
    /\ save_raised = "none"
    /\ dd_in = <<>> /\ dd_out = <<>> /\ dd_again = <<>> /\ dd_pc = "off"
    /\ dd_removed = 0 /\ dd_pad_in = <<>> /\ dd_pad_out = <<>>
    /\ ExIdle
    /\ MpIdle
    /\ TyIdle
    /\ SvIdle
    /\ CvIdle

runFrame == <<labVars, ddVars, dbVars, variant, max_pages, start_page, loopVars, hist>>

\* An exception that nothing inside run()'s try statement catches (the
\* loop and the helpers catch Exception only, and the code after the loop
\* catches nothing): control goes to the finally clause.
Run_Interrupt ==
    /\ variant \in BrowserVariants
    /\ pc \in {"login", "loop", "fold", "sleep", "dedup", "main"}
    /\ pc' = "unwind"
    /\ UNCHANGED <<runFrame, result, driver, log>>

\* The exception leaving run() with the finally clause passed over.
Run_FinallyClose_Skipped ==
    /\ variant \in BrowserVariants /\ pc = "unwind"
    /\ pc' = "raised"
    /\ UNCHANGED <<runFrame, result, driver, log>>

\* "finally: self.close()" while the exception is in flight; run() then
\* ends by raising it.
Run_FinallyClose ==
    /\ variant \in BrowserVariants /\ pc = "unwind"
    /\ driver' = (IF driver = "open" THEN "quit" ELSE driver)
    /\ pc' = "raised"
    /\ UNCHANGED <<runFrame, result, log>>

\* SeleniumAnnuityRateWatchScraper.setup_driver()
SE_SetupDriver ==
    /\ variant = "selenium" /\ pc = "setup"
    /\ \E ok \in BOOLEAN :
        IF ok THEN driver' = "open" /\ pc' = "login" /\ result' = result
        ELSE driver' = driver /\ pc' = "close" /\ result' = <<>>
    /\ UNCHANGED <<runFrame, log>>

\* SeleniumAnnuityRateWatchScraper.login(): it opens the address without a
\* pageNo.
SE_Login ==
    /\ variant = "selenium" /\ pc = "login"
    /\ \E ok \in BOOLEAN :
        /\ log' = LoggedIn(0, ok)
        /\ IF ok THEN pc' = "main" /\ result' = result
           ELSE pc' = "close" /\ result' = <<>>
    /\ UNCHANGED <<runFrame, driver>>

\* "row['scraped_page'] = i + 1"
WithScrapedPage(rows, i) ==
    [k \in 1..Len(rows) |-> (<<"scraped_page">> :> PyInt(i)) @@ rows[k]]

\* scrape_main_pages(): the three addresses in turn, two seconds between
\* them; a page gives rows or (also on an exception in scrape_page) [].
SE_ScrapeMainPages ==
    /\ variant = "selenium" /\ pc = "main"
    /\ \E r1, r2, r3 \in {<<>>, PgA} :
        result' = WithScrapedPage(r1, 1) \o WithScrapedPage(r2, 2)
                  \o WithScrapedPage(r3, 3)
    /\ log' = log \o <<Ev("get", 1), Ev("sleep", 2), Ev("get", 2),
                       Ev("sleep", 2), Ev("get", 3)>>
    /\ pc' = "close"
    /\ UNCHANGED <<runFrame, driver>>

\* SeleniumAnnuityRateWatchScraper.close() in the finally clause of run().
SE_Close ==
    /\ variant = "selenium" /\ pc = "close"
    /\ driver' = (IF driver = "open" THEN "quit" ELSE driver)
    /\ pc' = "done"
    /\ UNCHANGED <<runFrame, result, log>>

\* AjaxAnnuityRateWatchScraper.scrape_all_products(): "if not self.login():
\* return []"
A_Login ==
    /\ variant = "ajax" /\ pc = "login"
    /\ \E ok \in BOOLEAN :
        /\ log' = LoggedIn(0, ok)
        /\ IF ok THEN pc' = "load" /\ result' = result
           ELSE pc' = "done" /\ result' = <<>>
    /\ UNCHANGED <<runFrame, driver>>

\* load_products() and the return: listLoad alone when it fails, else the
\* four calls; "if products: return products  else: return []".
A_LoadProducts ==
    /\ variant = "ajax" /\ pc = "load"
    /\ \/ /\ log' = Append(log, Ev("ajax", 1))
          /\ result' = <<>>
       \/ /\ log' = log \o <<Ev("ajax", 1), Ev("ajax", 2), Ev("ajax", 3),
                             Ev("ajax", 4)>>
          /\ result' \in {<<>>, PgA}
    /\ pc' = "done"
    /\ UNCHANGED <<runFrame, driver>>

NextRun ==
    \/ Next
    \/ Run_Interrupt
    \/ Run_FinallyClose
    \/ SE_SetupDriver
    \/ SE_Login
    \/ SE_ScrapeMainPages
    \/ SE_Close
    \/ A_Login
    \/ A_LoadProducts

SpecRun == InitRun /\ [][NextRun]_vars

\* ------------------------------------------------- the extractors

\* A page is the sequence of its <table> elements as soup.find_all('table')
\* gives them; a table is [class: the set of its class names, rows: the
\* sequence of its <tr>]; a row is the sequence of its <th>/<td> cells; a
\* cell is [text: its characters, links: the hrefs of its <a>].
Cell(text, links) == [text |-> text, links |-> links]
Table(class, rows) == [class |-> class, rows |-> rows]

\* cell.get_text(strip=True)
GetText(cell) == Strip(cell.text)

\* f"Column_{n}"
ColumnNames ==
    <<"Column_1", "Column_2", "Column_3", "Column_4", "Column_5", "Column_6",
      "Column_7", "Column_8", "Column_9", "Column_10", "Column_11",
      "Column_12", "Column_13", "Column_14", "Column_15", "Column_16">>
ColumnKey(n) == <<ColumnNames[n]>>
\* f"{header}_links"
LinksKey(header) == header \o <<"_links">>
SourceUrl == <<"source_url">>

\* d[key] = value
Put(d, key, value) == (key :> value) @@ d

\* The header loop with a blank header left blank.
Headers_KeepBlank(header_row) ==
    [i \in 1..Len(header_row) |-> GetText(header_row[i])]

\* "headers.append(header_text if header_text else f'Column_{len(headers) + 1}')"
Headers(header_row) ==
    [i \in 1..Len(header_row) |->
        IF GetText(header_row[i]) # <<>> THEN GetText(header_row[i])
        ELSE ColumnKey(i)]

\* "header = headers[col_idx] if col_idx < len(headers) else f'Column_{col_idx + 1}'"
HeaderOf(headers, col) ==
    IF col <= Len(headers) THEN headers[col] ELSE ColumnKey(col)

\* The cell loop of one row; the browser variant stores the text and then
\* the links, the HTTP variant the links and then the text.
RECURSIVE CellLoop(_, _, _, _, _)
CellLoop(row_data, headers, cells, col, textFirst) ==
    IF col > Len(cells) THEN row_data
    ELSE LET header == HeaderOf(headers, col)
             text == Str(GetText(cells[col]))
             links == Links(cells[col].links)
             withText(d) == Put(d, header, text)
             withLinks(d) ==
                 IF cells[col].links # <<>> THEN Put(d, LinksKey(header), links)
                 ELSE d
         IN  CellLoop(IF textFirst THEN withLinks(withText(row_data))
                      ELSE withText(withLinks(row_data)),
                      headers, cells, col + 1, textFirst)

\* The data-row loop: rows[1:] enumerated from 0, a row without cells
\* skipped; meta[row_idx] is the dict the row starts from.
DataRows(rows, headers, meta, textFirst) ==
    LET idx == SelectSeq([i \in 1..(Len(rows) - 1) |-> i],
                         LAMBDA i : Len(rows[i + 1]) # 0)
    IN  [k \in 1..Len(idx) |->
            CellLoop(meta[idx[k] - 1], headers, rows[idx[k] + 1], 1, textFirst)]

\* ---- is_grouping_row and map_column_headers

required_fields == <<ColumnKey(2), ColumnKey(3), ColumnKey(4), ColumnKey(10)>>
\* The values that do not count as data: '', '-', 'N/A', 'NR'.
Placeholders == {<<>>, <<"-">>, <<"N", "/", "A">>, <<"N", "R">>}

\* The test without 'NR' among the placeholders.
IsFilled_NoNR(row, field) ==
    LET value == Strip(Get(row, field)[2])
    IN  value # <<>> /\ value \notin {<<>>, <<"-">>, <<"N", "/", "A">>}

\* "value = row.get(field, '').strip()
\*  if value and value not in ['', '-', 'N/A', 'NR']"
IsFilled(row, field) ==
    LET value == Strip(Get(row, field)[2])
    IN  value # <<>> /\ value \notin Placeholders

filled_fields(row) ==
    Cardinality({i \in 1..Len(required_fields) : IsFilled(row, required_fields[i])})

\* The classifier with the threshold at one filled field.
is_grouping_row_One(row) ==
    LET group_by == Strip(Get(row, ColumnKey(1))[2])
    IN  IF filled_fields(row) < 1 THEN TRUE
        ELSE IF group_by # <<>> /\ filled_fields(row) = 0 THEN TRUE
        ELSE FALSE

is_grouping_row(row) ==
    LET group_by == Strip(Get(row, ColumnKey(1))[2])
    IN  IF filled_fields(row) < 2 THEN TRUE
        ELSE IF group_by # <<>> /\ filled_fields(row) = 0 THEN TRUE
        ELSE FALSE

\* column_mapping, in the order of the dict literal.
column_mapping ==
    <<<<ColumnKey(2), Name>>,
      <<ColumnKey(3), Best>>,
      <<ColumnKey(4), <<"Max_Issue_Age">>>>,
      <<ColumnKey(5), <<"Min_Premium">>>>,
      <<ColumnKey(6), <<"SC_Years">>>>,
      <<ColumnKey(7), <<"Free_Withdrawal_Yr1_Yr2">>>>,
      <<ColumnKey(8), <<"Last_Change">>>>,
      <<ColumnKey(9), <<"Premium_Bonus">>>>,
      <<ColumnKey(10), Rate>>,
      <<ColumnKey(11), <<"Base_Rate">>>>,
      <<ColumnKey(12), <<"Years">>>>,
      <<ColumnKey(13), <<"GTD_Yield_Rate">>>>,
      <<ColumnKey(14), <<"Commission">>>>>>

\* str.replace(old, new)
RECURSIVE Replace(_, _, _)
Replace(str, old, new) ==
    IF Len(str) < Len(old) THEN str
    ELSE IF SubSeq(str, 1, Len(old)) = old
         THEN new \o Replace(SubSeq(str, Len(old) + 1, Len(str)), old, new)
         ELSE <<Head(str)>> \o Replace(Tail(str), old, new)

\* The three replacements that tidy a fraction split over lines.
CleanValue(value) ==
    IF IsStr(value)
    THEN Str(Replace(Replace(Replace(value[2],
                <<"\n", "/", "\n">>, <<" ", "/", " ">>),
                <<"\n", "/">>, <<" ", "/">>),
                <<"/", "\n">>, <<"/", " ">>))
    ELSE value

\* The mapping with every key of the raw row that has no semantic name
\* carried over.
RECURSIVE MapRow_KeepRest(_, _, _)
MapRow_KeepRest(row, i, mapped_row) ==
    IF i > Len(column_mapping)
    THEN mapped_row @@ [k \in {k \in DOMAIN row :
                            \A j \in 1..Len(column_mapping) : column_mapping[j][1] # k}
                        |-> row[k]]
    ELSE LET old_key == column_mapping[i][1]
             new_key == column_mapping[i][2]
         IN  MapRow_KeepRest(row, i + 1,
                IF old_key \in DOMAIN row
                THEN Put(mapped_row, new_key, CleanValue(row[old_key]))
                ELSE mapped_row)

\* "for old_key, new_key in column_mapping.items(): if old_key in row: ..."
RECURSIVE MapRow(_, _, _)
MapRow(row, i, mapped_row) ==
    IF i > Len(column_mapping) THEN mapped_row
    ELSE LET old_key == column_mapping[i][1]
             new_key == column_mapping[i][2]
         IN  MapRow(row, i + 1,
                IF old_key \in DOMAIN row
                THEN Put(mapped_row, new_key, CleanValue(row[old_key]))
                ELSE mapped_row)

\* The empty dict.
EmptyDict == [k \in {} |-> NoneValue]

map_column_headers(data) ==
    LET kept == SelectSeq(data, LAMBDA row : ~is_grouping_row(row))
    IN  [i \in 1..Len(kept) |-> MapRow(kept[i], 1, EmptyDict)]

\* ---- the browser variant's extract_table_data

\* The first loop over the tables with ">=" for ">": the last of the widest
\* tables wins.
RECURSIVE MainTableLoop_LastWins(_, _, _, _)
MainTableLoop_LastWins(tables, i, max_columns, main_table) ==
    IF i > Len(tables) THEN main_table
    ELSE LET rows == tables[i].rows
         IN  IF Len(rows) < 2
             THEN MainTableLoop_LastWins(tables, i + 1, max_columns, main_table)
             ELSE LET columns == Len(rows[1])
                  IN  IF columns >= max_columns /\ columns >= 10
                      THEN MainTableLoop_LastWins(tables, i + 1, columns, i)
                      ELSE MainTableLoop_LastWins(tables, i + 1, max_columns, main_table)

\* The first loop over the tables: main_table is the position of the table
\* chosen so far, 0 for None.
RECURSIVE MainTableLoop(_, _, _, _)
MainTableLoop(tables, i, max_columns, main_table) ==
    IF i > Len(tables) THEN main_table
    ELSE LET rows == tables[i].rows
         IN  IF Len(rows) < 2
             THEN MainTableLoop(tables, i + 1, max_columns, main_table)
             ELSE LET columns == Len(rows[1])
                  IN  IF columns > max_columns /\ columns >= 10
                      THEN MainTableLoop(tables, i + 1, columns, i)
                      ELSE MainTableLoop(tables, i + 1, max_columns, main_table)

\* "if not main_table": the fallback loop, over every table.
RECURSIVE FallbackLoop(_, _, _, _)
FallbackLoop(tables, i, max_rows, main_table) ==
    IF i > Len(tables) THEN main_table
    ELSE IF Len(tables[i].rows) > max_rows
         THEN FallbackLoop(tables, i + 1, Len(tables[i].rows), i)
         ELSE FallbackLoop(tables, i + 1, max_rows, main_table)

\* The position of the table extract_table_data extracts from, 0 for none.
MainTable(tables) ==
    LET wide == MainTableLoop(tables, 1, 0, 0)
    IN  IF wide # 0 THEN wide ELSE FallbackLoop(tables, 1, 0, 0)

BrowserMeta(page_no, row_idx) ==
    (PageNumber :> PyInt(page_no)) @@ (RowIndex :> PyInt(row_idx))
    @@ (SourceUrl :> Str(<<"url">>))

\* all_data as it stands before map_column_headers: the raw records of the
\* main table.
BrowserRawRows(tables, page_no) ==
    LET main_table == MainTable(tables)
    IN  IF main_table = 0 THEN <<>>
        ELSE LET rows == tables[main_table].rows
                 meta == [row_idx \in 0..(Len(rows) - 2) |->
                             BrowserMeta(page_no, row_idx)]
             IN  DataRows(rows, Headers(rows[1]), meta, TRUE)

\* Markup is [parses: whether the parser accepts it, tables: its tables].
\* The function with the exception of the parser let through.
browser_extract_table_data_NoCatch(markup, page_no) ==
    IF ~markup.parses THEN [raised |-> TRUE, rows |-> <<>>]
    ELSE [raised |-> FALSE,
          rows |-> map_column_headers(BrowserRawRows(markup.tables, page_no))]

\* extract_table_data(page_num): what it returns, and whether it raised; the
\* except clause turns every exception of the try body into [].
browser_extract_table_data(markup, page_no) ==
    IF ~markup.parses THEN [raised |-> FALSE, rows |-> <<>>]
    ELSE [raised |-> FALSE,
          rows |-> map_column_headers(BrowserRawRows(markup.tables, page_no))]

\* ---- the HTTP variant's extract_table_data

SkippedClasses == {"nav", "menu", "header", "footer"}

HttpMeta(table_idx, row_idx) ==
    (TableIndex :> PyInt(table_idx)) @@ (RowIndex :> PyInt(row_idx))

\* The body of the loop over the tables for table i (table_idx = i - 1):
\* the records it adds to all_data.
HttpTableRows(tables, i) ==
    LET table == tables[i]
        rows == table.rows
    IN  IF table.class \cap SkippedClasses # {} THEN <<>>
        ELSE IF Len(rows) < 2 THEN <<>>
        ELSE IF Headers(rows[1]) = <<>> THEN <<>>
        ELSE LET meta == [row_idx \in 0..(Len(rows) - 2) |->
                             HttpMeta(i - 1, row_idx)]
             IN  DataRows(rows, Headers(rows[1]), meta, FALSE)

\* extract_table_data(html_content): no try statement, an exception of the
\* parser leaves the function.
http_extract_table_data(markup) ==
    IF ~markup.parses THEN [raised |-> TRUE, rows |-> <<>>]
    ELSE [raised |-> FALSE,
          rows |-> Concat([i \in 1..Len(markup.tables) |->
                              HttpTableRows(markup.tables, i)])]

\* ------------------------------------- remove_duplicates on its own

\* Records of any shape a caller may pass: padded values, a link annotation,
\* a missing field, an empty value, None.
d1 == (Name :> Str(<<"A">>)) @@ (Rate :> Str(<<"1">>))
d2 == (Name :> Str(<<" ", "A">>)) @@ (Rate :> Str(<<"1", " ">>))
d3 == d1 @@ (NameLinks :> Links(<<"u">>))
d4 == (Name :> Str(<<"A">>))
d5 == (Name :> Str(<<"A">>)) @@ (Rate :> NoneValue)
d6 == (Name :> Str(<<"B">>)) @@ (Rate :> Str(<<"1">>))
d7 == (Name :> Str(<<"A">>)) @@ (Rate :> Str(<<>>))
d8 == (Name :> Str(<<"A">>)) @@ (Rate :> Str(<<" ">>))

DedupRecords == {d1, d2, d3, d4, d5, d6, d7, d8}
DedupInputs == UNION {[1..n -> DedupRecords] : n \in 0..MaxLen}

InitDedup ==
    /\ variant = "browser"
    /\ max_pages = <<>>
    /\ start_page = 1
    /\ pc = "off"
    /\ page_num = 1
    /\ consecutive_empty_pages = 0
    /\ last_page_data_signature = NoneValue
    /\ all_data = <<>>
    /\ page_data = List(<<>>)
    /\ result = <<>>
    /\ driver = "none"
    /\ log = <<>>
    /\ hist = <<>>
    /\ db_calls = <<>>
    /\ save_status = "none"
    /\ save_raised = "none"
    /\ dd_in \in DedupInputs
    /\ dd_out = <<>> /\ dd_again = <<>> /\ dd_pc = "input"
    /\ dd_removed = 0 /\ dd_pad_in = <<>> /\ dd_pad_out = <<>>
    /\ ExIdle
    /\ MpIdle
    /\ TyIdle
    /\ SvIdle
    /\ CvIdle

crawlVars == <<variant, max_pages, start_page, pc, loopVars, result, driver,
               log, hist, dbVars, labVars>>

\* unique = remove_duplicates(data)
D_Apply ==
    /\ dd_pc = "input"
    /\ dd_out' = remove_duplicates(dd_in)
    /\ dd_removed' = DedupRun(dd_in).duplicates_removed
    /\ dd_pc' = "once"
    /\ UNCHANGED <<crawlVars, dd_in, dd_again, dd_pad_in, dd_pad_out>>

\* remove_duplicates(unique)
D_Again ==
    /\ dd_pc = "once"
    /\ dd_again' = remove_duplicates(dd_out)
    /\ dd_pc' = "twice"
    /\ UNCHANGED <<crawlVars, dd_in, dd_out, dd_removed, dd_pad_in, dd_pad_out>>

\* The cell text with whitespace added in front of it or behind it.
Padded(v, side) ==
    IF side = "lead" THEN Str(<<" ">> \o v[2]) ELSE Str(v[2] \o <<" ">>)

\* remove_duplicates(padded), where padded is the list with whitespace
\* added around one string value of one record.
D_Pad ==
    /\ dd_pc = "once"
    /\ \E i \in 1..Len(dd_in) :
        \E k \in {k \in DOMAIN dd_in[i] : IsStr(dd_in[i][k])} :
        \E side \in {"lead", "trail"} :
            LET padded == [dd_in EXCEPT ![i] =
                              [dd_in[i] EXCEPT ![k] = Padded(dd_in[i][k], side)]]
            IN  /\ dd_pad_in' = padded
                /\ dd_pad_out' = remove_duplicates(padded)
    /\ dd_pc' = "padded"
    /\ UNCHANGED <<crawlVars, dd_in, dd_out, dd_again, dd_removed>>

NextDedup == D_Apply \/ D_Again \/ D_Pad

SpecDedup == InitDedup /\ [][NextDedup]_vars

\* ------------------------------------------ the extractors on a page

Seqs(S, n) == UNION {[1..k -> S] : k \in 0..n}

\* Every table with up to MaxCols header cells and up to MaxRows data rows
\* of up to MaxCols + 1 cells: blank and named headers, texts with and
\* without surrounding whitespace, a cell with a link, rows without cells,
\* rows shorter and longer than the header, equal header texts.
HeaderCells ==
    {Cell(<<>>, <<>>), Cell(<<" ", "Company">>, <<>>), Cell(<<"Rate">>, <<>>)}
DataCells == {Cell(<<"Acme">>, <<>>), Cell(<<" ", "4.25">>, <<"u">>)}
EnumTables ==
    {Table({}, <<h>> \o d) :
        h \in Seqs(HeaderCells, MaxCols),
        d \in Seqs(Seqs(DataCells, MaxCols + 1), MaxRows)}

\* A table of n columns and r rows as the site serves them: a header row of
\* blank cells, every data cell holding the text tag.
WideTable(n, r, tag) ==
    Table({}, [j \in 1..r |->
                  [i \in 1..n |-> IF j = 1 THEN Cell(<<>>, <<>>)
                                  ELSE Cell(<<tag>>, <<>>)]])
W10 == WideTable(10, 2, "a")
W12a == WideTable(12, 2, "b")
W12b == WideTable(12, 2, "c")
\* Twelve columns, the header row only.
W12one == WideTable(12, 1, "x")
L3 == WideTable(4, 3, "d")
L3b == WideTable(4, 3, "e")
\* header ["Company", "Rate"], rows [["Acme", "4.25"], ["Beta", "5.00"]]
ExampleRows ==
    <<<<Cell(<<"Company">>, <<>>), Cell(<<"Rate">>, <<>>)>>,
      <<Cell(<<"Acme">>, <<>>), Cell(<<"4.25">>, <<>>)>>,
      <<Cell(<<"Beta">>, <<>>), Cell(<<"5.00">>, <<>>)>>>>
ExampleTable == Table({}, ExampleRows)
NavTable == Table({"nav"}, ExampleRows)
ZeroTable == Table({}, <<>>)
NamedTables ==
    {W10, W12a, W12b, W12one, L3, L3b, ExampleTable, NavTable, ZeroTable}

NamedPages == Seqs(NamedTables, MaxTables)
EnumPages == {<<t>> : t \in EnumTables}
Accepted(tables) == [parses |-> TRUE, tables |-> tables]
\* Markup the parser rejects with an exception.
Rejected == [parses |-> FALSE, tables |-> <<>>]

InitExtract ==
    /\ variant \in {"browser", "http"}
    /\ max_pages \in {<<>>, <<1>>}
    /\ start_page = 1
    /\ pc = "off"
    /\ page_num = 1
    /\ consecutive_empty_pages \in 0..2
    /\ \/ ex_markup \in {Accepted(p) : p \in NamedPages} \cup {Rejected}
       \/ /\ ex_markup \in {Accepted(p) : p \in EnumPages}
          /\ variant = "browser" /\ consecutive_empty_pages = 0
          /\ max_pages = <<>>
    /\ last_page_data_signature = NoneValue
    /\ all_data = <<>>
    /\ page_data = List(<<>>)
    /\ result = <<>>
    /\ driver = "none"
    /\ log = <<>>
    /\ hist = <<>>
    /\ db_calls = <<>>
    /\ save_status = "none"
    /\ save_raised = "none"
    /\ dd_in = <<>> /\ dd_out = <<>> /\ dd_again = <<>> /\ dd_pc = "off"
    /\ dd_removed = 0 /\ dd_pad_in = <<>> /\ dd_pad_out = <<>>
    /\ ex_raw = <<>> /\ ex_out = NoOutcome /\ ex_http = NoOutcome
    /\ ex_pc = "markup"
    /\ MpIdle
    /\ TyIdle
    /\ SvIdle
    /\ CvIdle

pageVars == <<variant, max_pages, start_page, page_num, result, driver, log,
              hist, dbVars, ddVars, mpVars, tyVars, svVars, cvVars>>

\* The browser variant's extract_table_data(page_num) on the markup.
X_Browser ==
    /\ ex_pc = "markup"
    /\ ex_raw' = (IF ex_markup.parses
                  THEN BrowserRawRows(ex_markup.tables, page_num) ELSE <<>>)
    /\ ex_out' = browser_extract_table_data(ex_markup, page_num)
    /\ ex_pc' = "browser"
    /\ UNCHANGED <<pageVars, pc, loopVars, ex_markup, ex_http>>

\* The HTTP variant's extract_table_data(response.content) on the markup.
X_Http ==
    /\ ex_pc = "browser"
    /\ ex_http' = http_extract_table_data(ex_markup)
    /\ ex_pc' = "http"
    /\ UNCHANGED <<pageVars, pc, loopVars, ex_markup, ex_raw, ex_out>>

\* What scrape_page returns once the page has arrived: the extracted rows;
\* when the extraction raised, [] in the browser variant and None in the
\* HTTP variant.
X_ScrapePage ==
    /\ ex_pc = "http"
    /\ page_data' =
          (IF variant = "browser"
           THEN List(IF ex_out.raised THEN <<>> ELSE ex_out.rows)
           ELSE IF ex_http.raised THEN NonePage ELSE List(ex_http.rows))
    /\ ex_pc' = "scraped"
    /\ UNCHANGED <<pageVars, pc, page_num, consecutive_empty_pages,
                   last_page_data_signature, all_data, ex_markup, ex_raw,
                   ex_out, ex_http>>

\* The body of the pagination loop on what scrape_page returned.
X_Fold ==
    /\ ex_pc = "scraped"
    /\ IF variant = "browser"
       THEN LET r == BrowserFold(all_data, consecutive_empty_pages,
                                 last_page_data_signature, max_pages, page_num,
                                 page_data.rows)
            IN  /\ all_data' = r.all_data
                /\ consecutive_empty_pages' = r.consecutive_empty_pages
                /\ last_page_data_signature' = r.last_page_data_signature
                /\ pc' = r.pc
       ELSE LET r == HttpFold(all_data, consecutive_empty_pages, page_num,
                              page_data)
            IN  /\ all_data' = r.all_data
                /\ consecutive_empty_pages' = r.consecutive_empty_pages
                /\ pc' = r.pc
                /\ UNCHANGED last_page_data_signature
    /\ ex_pc' = "folded"
    /\ UNCHANGED <<pageVars, page_num, page_data, ex_markup, ex_raw, ex_out,
                   ex_http>>

NextExtract == X_Browser \/ X_Http \/ X_ScrapePage \/ X_Fold

SpecExtract == InitExtract /\ [][NextExtract]_vars

\* --------------------------------- map_column_headers on its own

\* A cell of a raw row: absent (<<>>) or present with a text (<<text>>).
KeyCellOptions ==
    {<<>>, <<<<>>>>, <<<<"-">>>>, <<<<"N", "/", "A">>>>, <<<<"N", "R">>>>,
     <<<<" ", "N", "R">>>>, <<<<"A">>>>}
Opt(key, option) ==
    IF option = <<>> THEN EmptyDict ELSE (key :> Str(option[1]))
\* What a raw row holds besides the key columns: mapped and unmapped
\* columns, a fraction split over lines, a link annotation, the metadata.
RestOfRow ==
    (ColumnKey(5) :> Str(<<"5">>))
    @@ (ColumnKey(7) :> Str(<<"1", "\n", "/", "\n", "2">>))
    @@ (ColumnKey(14) :> Str(<<"c">>))
    @@ (ColumnKey(15) :> Str(<<"z">>))
    @@ (LinksKey(ColumnKey(2)) :> Links(<<"u">>))
    @@ BrowserMeta(1, 0)
RawRows ==
    {Opt(ColumnKey(2), o2) @@ Opt(ColumnKey(3), o3) @@ Opt(ColumnKey(4), o4)
     @@ Opt(ColumnKey(10), o10) @@ Opt(ColumnKey(1), o1) @@ rest :
        o2 \in KeyCellOptions, o3 \in KeyCellOptions, o4 \in KeyCellOptions,
        o10 \in KeyCellOptions, o1 \in {<<>>, <<<<"g">>>>},
        rest \in {EmptyDict, RestOfRow}}
\* A section header, two products, a row with placeholders only.
GroupRow == (ColumnKey(1) :> Str(<<"g">>)) @@ BrowserMeta(1, 0)
ProductRow(name) ==
    (ColumnKey(1) :> Str(<<>>)) @@ (ColumnKey(2) :> Str(<<name>>))
    @@ (ColumnKey(10) :> Str(<<"1">>)) @@ BrowserMeta(1, 1)
DashRow ==
    (ColumnKey(2) :> Str(<<"A">>)) @@ (ColumnKey(3) :> Str(<<"-">>))
    @@ (ColumnKey(10) :> Str(<<"N", "R">>))
ListRows == {GroupRow, ProductRow("A"), ProductRow("B"), DashRow}

InitMap ==
    /\ variant = "browser"
    /\ max_pages = <<>>
    /\ start_page = 1
    /\ pc = "off"
    /\ page_num = 1
    /\ consecutive_empty_pages = 0
    /\ last_page_data_signature = NoneValue
    /\ all_data = <<>>
    /\ page_data = List(<<>>)
    /\ result = <<>>
    /\ driver = "none"
    /\ log = <<>>
    /\ hist = <<>>
    /\ db_calls = <<>>
    /\ save_status = "none"
    /\ save_raised = "none"
    /\ dd_in = <<>> /\ dd_out = <<>> /\ dd_again = <<>> /\ dd_pc = "off"
    /\ dd_removed = 0 /\ dd_pad_in = <<>> /\ dd_pad_out = <<>>
    /\ ExIdle
    /\ TyIdle
    /\ SvIdle
    /\ CvIdle
    /\ mp_in \in {<<r>> : r \in RawRows} \cup Seqs(ListRows, MaxMapRows)
    /\ mp_class = <<>> /\ mp_out = <<>> /\ mp_pc = "input"

notMapVars == <<variant, max_pages, start_page, pc, loopVars, result, driver,
                log, hist, dbVars, ddVars, exVars, tyVars, svVars, cvVars>>

\* self.is_grouping_row(row), for each row
M_Classify ==
    /\ mp_pc = "input"
    /\ mp_class' = [i \in 1..Len(mp_in) |-> is_grouping_row(mp_in[i])]
    /\ mp_pc' = "classified"
    /\ UNCHANGED <<notMapVars, mp_in, mp_out>>

\* mapped_data = self.map_column_headers(all_data)
M_Map ==
    /\ mp_pc = "classified"
    /\ mp_out' = map_column_headers(mp_in)
    /\ mp_pc' = "mapped"
    /\ UNCHANGED <<notMapVars, mp_in, mp_class>>

NextMap == M_Classify \/ M_Map

SpecMap == InitMap /\ [][NextMap]_vars

\* ------------------------------------- the column types of the two saves

\* The longest list of rows handed to the save functions.
MaxVals == 2

\* A float, by the characters str() prints.
PyFloat(chars) == <<"f", chars>>

DEFAULT_COLUMN_TYPE == "TEXT"
MSSQL_DEFAULT_COLUMN_TYPE == "NVARCHAR(MAX)"
NUMERIC_DECIMAL_TYPE == "DECIMAL(20,6)"

\* "if v in (None, "", "-", "N/A"): continue"
EmptyMarks == {NoneValue, Str(<<>>), Str(<<"-">>), Str(<<"N", "/", "A">>)}

\* s.replace(",", "")
RemoveCommas(s) == SelectSeq(s, LAMBDA c : c # ",")

DigitChars == {Digits[i] : i \in 1..Len(Digits)}

\* re.compile(r"^\d+$").fullmatch(s)
int_regex(s) == s # <<>> /\ \A i \in 1..Len(s) : s[i] \in DigitChars

\* re.compile(r"^\d+\.\d+$").fullmatch(s)
dec_regex(s) ==
    \E k \in 1..Len(s) :
        /\ s[k] = "."
        /\ int_regex(SubSeq(s, 1, k - 1))
        /\ int_regex(SubSeq(s, k + 1, Len(s)))

\* The candidate type of one non-empty value, "" when it is not numeric
\* (the branch that breaks out of the loop).
Candidate(v) ==
    IF v[1] = "i" THEN "INT"
    ELSE IF v[1] = "f" THEN NUMERIC_DECIMAL_TYPE
    ELSE LET s == Strip(RemoveCommas(Format(v)))
         IN  IF int_regex(s) THEN "INT"
             ELSE IF dec_regex(s) THEN NUMERIC_DECIMAL_TYPE
             ELSE ""

\* row.get(col)
RowGet(row, col) == IF col \in DOMAIN row THEN row[col] ELSE NoneValue

\* The loop with the first numeric value deciding for good: a decimal
\* after integers does not change the type.
RECURSIVE InferLoop_NoUpgrade(_, _, _)
InferLoop_NoUpgrade(data, col, inferred) ==
    IF data = <<>> THEN inferred
    ELSE LET v == RowGet(Head(data), col)
         IN  IF v \in EmptyMarks
             THEN InferLoop_NoUpgrade(Tail(data), col, inferred)
             ELSE IF Candidate(v) = "" THEN ""
             ELSE InferLoop_NoUpgrade(Tail(data), col,
                      IF inferred = "" THEN Candidate(v) ELSE inferred)

\* "for row in data" of _infer_column_types for one column, from the rows
\* left and the value of inferred ("" for None); the same in both modules.
RECURSIVE InferLoop(_, _, _)
InferLoop(data, col, inferred) ==
    IF data = <<>> THEN inferred
    ELSE LET v == RowGet(Head(data), col)
         IN  IF v \in EmptyMarks THEN InferLoop(Tail(data), col, inferred)
             ELSE IF Candidate(v) = "" THEN ""
             ELSE InferLoop(Tail(data), col,
                      IF inferred = "" THEN Candidate(v)
                      ELSE IF inferred = "INT"
                              /\ Candidate(v) = NUMERIC_DECIMAL_TYPE
                           THEN NUMERIC_DECIMAL_TYPE
                      ELSE inferred)

\* _infer_column_types(data, columns): a type for the columns whose loop
\* ended with one.
RECURSIVE infer_column_types(_, _)
infer_column_types(data, columns) ==
    IF columns = <<>> THEN EmptyDict
    ELSE LET col == columns[Len(columns)]
             before == infer_column_types(data, SubSeq(columns, 1, Len(columns) - 1))
             inferred == InferLoop(data, col, "")
         IN  IF inferred # "" THEN Put(before, col, inferred) ELSE before

\* save_annuity_data_to_mysql: the inferred types updated with the
\* overrides, and the type _ensure_table writes for the column.
mysql_column_type(data, columns, overrides, col) ==
    LET inferred_types == overrides @@ infer_column_types(data, columns)
    IN  IF col \in DOMAIN inferred_types THEN inferred_types[col]
        ELSE DEFAULT_COLUMN_TYPE

\* "default_numeric" of save_annuity_data_to_mssql
default_numeric ==
    (<<"Min_Premium">> :> "INT") @@ (<<"Max_Issue_Age">> :> "INT")
    @@ (<<"Current_Rate">> :> NUMERIC_DECIMAL_TYPE)
    @@ (<<"Base_Rate">> :> NUMERIC_DECIMAL_TYPE)
    @@ (<<"GTD_Yield_Rate">> :> NUMERIC_DECIMAL_TYPE)

InColumns(col, columns) == \E i \in 1..Len(columns) : columns[i] = col

\* The SQL Server types with default_numeric put over whatever type a known
\* column has.
mssql_column_type_DefaultsWin(data, columns, overrides, col) ==
    LET updated == overrides @@ infer_column_types(data, columns)
        inferred == [c \in DOMAIN updated
                        \cup {d \in DOMAIN default_numeric : InColumns(d, columns)}
                     |-> IF c \in DOMAIN default_numeric /\ InColumns(c, columns)
                         THEN default_numeric[c]
                         ELSE updated[c]]
    IN  IF col \in DOMAIN inferred THEN inferred[col]
        ELSE MSSQL_DEFAULT_COLUMN_TYPE

\* save_annuity_data_to_mssql: the inferred types updated with the
\* overrides, then with default_numeric for the known columns that have
\* no type yet, and the type written in col_defs.
mssql_column_type(data, columns, overrides, col) ==
    LET updated == overrides @@ infer_column_types(data, columns)
        inferred == [c \in DOMAIN updated
                        \cup {d \in DOMAIN default_numeric : InColumns(d, columns)}
                     |-> IF c \in DOMAIN updated THEN updated[c]
                         ELSE default_numeric[c]]
    IN  IF col \in DOMAIN inferred THEN inferred[col]
        ELSE MSSQL_DEFAULT_COLUMN_TYPE

\* ---- the conversion of the values for the INSERT

RECURSIVE StripZeros(_)
StripZeros(s) ==
    IF Len(s) > 1 /\ Head(s) = "0" THEN StripZeros(Tail(s)) ELSE s

RECURSIVE StripEndZeros(_)
StripEndZeros(s) ==
    IF Len(s) > 1 /\ s[Len(s)] = "0"
    THEN StripEndZeros(SubSeq(s, 1, Len(s) - 1)) ELSE s

\* The text a number is parsed from: whitespace around it dropped, and its
\* sign apart.
Unsigned(s) ==
    LET t == Strip(s)
    IN  IF t # <<>> /\ Head(t) \in {"+", "-"} THEN Tail(t) ELSE t
Minus(s) == LET t == Strip(s) IN t # <<>> /\ Head(t) = "-"

\* int(s) succeeds: digits, a sign allowed before and whitespace around.
IntParses(s) == int_regex(Unsigned(s))
\* int(s), as the int it gives.
IntOf(s) ==
    LET d == StripZeros(Unsigned(s))
    IN  <<"i", IF Minus(s) /\ d # <<"0">> THEN <<"-">> \o d ELSE d>>

PointAt(s) == CHOOSE k \in 1..Len(s) : s[k] = "."
\* float(s) succeeds: digits with at most one point and a digit on one
\* side of it at least, a sign allowed before and whitespace around.
FloatParses(s) ==
    LET u == Unsigned(s)
    IN  \/ int_regex(u)
        \/ /\ \E k \in 1..Len(u) : u[k] = "."
           /\ LET whole == SubSeq(u, 1, PointAt(u) - 1)
                  frac == SubSeq(u, PointAt(u) + 1, Len(u))
              IN  /\ whole # <<>> \/ frac # <<>>
                  /\ whole = <<>> \/ int_regex(whole)
                  /\ frac = <<>> \/ int_regex(frac)
\* float(s), as the float it gives (by the characters repr prints).
FloatOf(s) ==
    LET u == Unsigned(s)
        pointed == \E k \in 1..Len(u) : u[k] = "."
        whole == IF pointed THEN SubSeq(u, 1, PointAt(u) - 1) ELSE u
        frac == IF pointed THEN SubSeq(u, PointAt(u) + 1, Len(u)) ELSE <<>>
        w == StripZeros(IF whole = <<>> THEN <<"0">> ELSE whole)
        f == StripEndZeros(IF frac = <<>> THEN <<"0">> ELSE frac)
    IN  <<"f", (IF Minus(s) THEN <<"-">> ELSE <<>>) \o w \o <<".">> \o f>>

\* col_type.startswith("DECIMAL"): of the types in use here, the one
\* decimal type.
IsDecimalType(col_type) == col_type = NUMERIC_DECIMAL_TYPE

\* _convert of mssql_utils: None for an empty mark, the number when the
\* type is numeric and the value converts, None in every other case (the
\* except clause and the last line both return None).
convert(value, col_type) ==
    IF value \in EmptyMarks THEN NoneValue
    ELSE LET s == RemoveCommas(Format(value))
         IN  IF col_type = "INT"
             THEN IF IntParses(s) THEN IntOf(s) ELSE NoneValue
             ELSE IF IsDecimalType(col_type)
             THEN IF FloatParses(s) THEN FloatOf(s) ELSE NoneValue
             ELSE NoneValue

\* _convert_value_for_db of db_utils: None for an empty mark, the number
\* when the type is numeric and the value converts, the value itself in
\* every other case.
convert_value_for_db(value, col_type) ==
    IF value \in EmptyMarks THEN NoneValue
    ELSE LET s == RemoveCommas(Format(value))
         IN  IF col_type = "INT"
             THEN IF IntParses(s) THEN IntOf(s) ELSE value
             ELSE IF IsDecimalType(col_type)
             THEN IF FloatParses(s) THEN FloatOf(s) ELSE value
             ELSE value

\* "values": the column's entry of each row's tuple, MySQL.
mysql_values(data, col, col_type) ==
    [i \in DOMAIN data |-> convert_value_for_db(RowGet(data[i], col), col_type)]

\* "rows": the column's entry of each row's tuple, SQL Server.
mssql_values(data, col, col_type) ==
    [i \in DOMAIN data |-> convert(RowGet(data[i], col), col_type)]

\* The values a column is given here: the empty marks, the spec's
\* examples, digits inside whitespace, a number ending in its point, an
\* int and a float.
TypeValues ==
    EmptyMarks \cup
    { Str(<<"1", "0", ",", "0", "0", "0">>), Str(<<"5", "0", "0", "0">>),
      Str(<<"4", ".", "2", "5">>), Str(<<"5", ".", "0", "0">>),
      Str(<<"A", "-">>), Str(<<"B", "+">>),
      Str(<<" ", "7", " ">>), Str(<<"5", ".">>),
      PyInt(3), PyFloat(<<"2", ".", "5">>) }

\* A column no default names, and two that default_numeric names.
TypeColumns == {<<"Notes">>, <<"Min_Premium">>, <<"Current_Rate">>}

\* A row has the column or lacks it; the save functions return at once
\* when handed no rows, so a list that is typed has at least one.
TypeRows(col) == {EmptyDict} \cup {(col :> v) : v \in TypeValues}

\* column_type_overrides: none, one for the column (a text type or INT),
\* or one that names another column only.
TypeOverrides(col) ==
    {EmptyDict, (col :> "VARCHAR(64)"), (col :> "INT"), (<<"Extra">> :> "INT")}

InitTypes ==
    /\ variant = "browser"
    /\ max_pages = <<>>
    /\ start_page = 1
    /\ pc = "off"
    /\ page_num = 1
    /\ consecutive_empty_pages = 0
    /\ last_page_data_signature = NoneValue
    /\ all_data = <<>>
    /\ page_data = List(<<>>)
    /\ result = <<>>
    /\ driver = "none"
    /\ log = <<>>
    /\ hist = <<>>
    /\ db_calls = <<>>
    /\ save_status = "none"
    /\ save_raised = "none"
    /\ dd_in = <<>> /\ dd_out = <<>> /\ dd_again = <<>> /\ dd_pc = "off"
    /\ dd_removed = 0 /\ dd_pad_in = <<>> /\ dd_pad_out = <<>>
    /\ ExIdle
    /\ MpIdle
    /\ SvIdle
    /\ CvIdle
    /\ ty_col \in TypeColumns
    /\ ty_data \in Seqs(TypeRows(ty_col), MaxVals) \ {<<>>}
    /\ ty_over \in TypeOverrides(ty_col)
    /\ ty_mysql = "" /\ ty_mssql = "" /\ ty_again = <<>>
    /\ ty_mysql_again = "" /\ ty_mssql_again = "" /\ ty_pc = "input"
    /\ ty_mysql_conv = "" /\ ty_mssql_conv = ""
    /\ ty_mysql_values = <<>> /\ ty_mssql_values = <<>>

notTypeVars == <<variant, max_pages, start_page, pc, loopVars, result, driver,
                 log, hist, dbVars, ddVars, exVars, mpVars, svVars, cvVars>>

\* Both save functions handed the rows: the type each gives the column.
T_Infer ==
    /\ ty_pc = "input"
    /\ ty_mysql' = mysql_column_type(ty_data, <<ty_col>>, ty_over, ty_col)
    /\ ty_mssql' = mssql_column_type(ty_data, <<ty_col>>, ty_over, ty_col)
    /\ ty_mysql_conv' = mysql_column_type(ty_data, <<ty_col>>, ty_over, ty_col)
    /\ ty_mssql_conv' = mssql_column_type(ty_data, <<ty_col>>, ty_over, ty_col)
    /\ ty_mysql_values' = mysql_values(ty_data, ty_col, ty_mysql_conv')
    /\ ty_mssql_values' = mssql_values(ty_data, ty_col, ty_mssql_conv')
    /\ ty_pc' = "typed"
    /\ UNCHANGED <<notTypeVars, ty_col, ty_data, ty_over, ty_again,
                   ty_mysql_again, ty_mssql_again>>

\* Both save functions handed the same rows in another order.
T_Reorder ==
    /\ ty_pc = "typed"
    /\ \E p \in Permutations(DOMAIN ty_data) :
        LET rows == [i \in DOMAIN ty_data |-> ty_data[p[i]]]
        IN  /\ ty_again' = rows
            /\ ty_mysql_again' = mysql_column_type(rows, <<ty_col>>, ty_over, ty_col)
            /\ ty_mssql_again' = mssql_column_type(rows, <<ty_col>>, ty_over, ty_col)
    /\ ty_pc' = "reordered"
    /\ UNCHANGED <<notTypeVars, ty_col, ty_data, ty_over, ty_mysql, ty_mssql,
                   ty_mysql_conv, ty_mssql_conv, ty_mysql_values,
                   ty_mssql_values>>

NextTypes == T_Infer \/ T_Reorder

SpecTypes == InitTypes /\ [][NextTypes]_vars

\* ------------------------------------------ the two saves and the table

\* The most records handed to a save function.
MaxBatch == 2

\* The statements of save_annuity_data_to_mssql, in order: the two
\* connections with CREATE DATABASE between them, DROP TABLE (when
\* recreate_table), CREATE TABLE, the one executemany INSERT; the
\* connections are opened with autocommit, and nothing is committed.
MssqlSteps == <<"connect", "drop", "create", "insert">>

\* The statements a call sends when none fails.
StepsOf(backend, recreate) ==
    SelectSeq(IF backend = "mysql" THEN SaveSteps ELSE MssqlSteps,
              LAMBDA st : recreate \/ st # "drop")

\* The table after a statement: DROP TABLE IF EXISTS, CREATE TABLE IF NOT
\* EXISTS, and the INSERT of one row per record.
AfterStatement(st, table, batch) ==
    IF st = "drop" THEN NoTable
    ELSE IF st = "create"
    THEN IF table.exists THEN table ELSE [exists |-> TRUE, rows |-> <<>>]
    ELSE IF st = "insert"
    THEN [exists |-> TRUE, rows |-> table.rows \o batch]
    ELSE table

RECURSIVE AfterStatements(_, _, _)
AfterStatements(steps, table, batch) ==
    IF steps = <<>> THEN table
    ELSE AfterStatements(Tail(steps), AfterStatement(Head(steps), table, batch),
                         batch)

\* The rows of the batch a failed executemany can leave in the table.  The
\* MySQL connector sends the batch as one multi-row INSERT, which the
\* InnoDB table takes whole or not at all; pyodbc executes the INSERT once
\* per row on a connection in autocommit mode, so the rows before the one
\* that fails stay.
LeftByFailedInsert(backend, batch) ==
    IF backend = "mysql" THEN {<<>>}
    ELSE {SubSeq(batch, 1, j) : j \in 0..(Len(batch) - 1)}

\* A save that drops the table whatever recreate_table says.
save_annuity_data_AlwaysDrop(backend, data, recreate, table, k, left) ==
    LET steps == StepsOf(backend, TRUE)
    IN  [table |-> AfterStatements(steps, table, data),
         db_calls |-> steps, save_status |-> "returned",
         save_raised |-> "none"]

\* A save that connects and prepares the table before it looks at data.
save_annuity_data_NoGuard(backend, data, recreate, table, k, left) ==
    LET steps == StepsOf(backend, recreate)
    IN  [table |-> AfterStatements(steps, table, data),
         db_calls |-> steps, save_status |-> "returned",
         save_raised |-> "none"]

\* save_annuity_data_to_mysql / save_annuity_data_to_mssql called with the
\* records `data`, statement k raising (k = 0: none does) and `left` being
\* what a failed INSERT leaves: the table afterwards, the statements sent
\* and how the call ends.  "if not data: return" comes before anything.
save_annuity_data(backend, data, recreate, table, k, left) ==
    LET steps == StepsOf(backend, recreate)
    IN  IF data = <<>>
        THEN [table |-> table, db_calls |-> <<>>, save_status |-> "returned",
              save_raised |-> "none"]
        ELSE IF k = 0
        THEN [table |-> AfterStatements(steps, table, data),
              db_calls |-> steps, save_status |-> "returned",
              save_raised |-> "none"]
        ELSE LET done == AfterStatements(SubSeq(steps, 1, k - 1), table, data)
             IN  [table |-> IF steps[k] = "insert"
                            THEN [exists |-> TRUE, rows |-> done.rows \o left]
                            ELSE done,
                  db_calls |-> SubSeq(steps, 1, k),
                  save_status |-> "raised",
                  save_raised |-> steps[k]]

\* The records of a batch and the rows a table may hold already.
BatchRecords == {"a", "b"}
OldTables == {NoTable, [exists |-> TRUE, rows |-> <<>>],
              [exists |-> TRUE, rows |-> <<"old">>]}

InitSave ==
    /\ variant = "browser"
    /\ max_pages = <<>>
    /\ start_page = 1
    /\ pc = "off"
    /\ page_num = 1
    /\ consecutive_empty_pages = 0
    /\ last_page_data_signature = NoneValue
    /\ all_data = <<>>
    /\ page_data = List(<<>>)
    /\ result = <<>>
    /\ driver = "none"
    /\ log = <<>>
    /\ hist = <<>>
    /\ db_calls = <<>>
    /\ save_status = "none"
    /\ save_raised = "none"
    /\ dd_in = <<>> /\ dd_out = <<>> /\ dd_again = <<>> /\ dd_pc = "off"
    /\ dd_removed = 0 /\ dd_pad_in = <<>> /\ dd_pad_out = <<>>
    /\ ExIdle
    /\ MpIdle
    /\ TyIdle
    /\ CvIdle
    /\ sv_backend \in {"mysql", "mssql"}
    /\ sv_data \in Seqs(BatchRecords, MaxBatch)
    /\ sv_recreate \in BOOLEAN
    /\ sv_before \in OldTables
    /\ sv_table = sv_before
    /\ sv_pc = "call"

notSaveVars == <<variant, max_pages, start_page, pc, loopVars, result, driver,
                 log, hist, ddVars, exVars, mpVars, tyVars, cvVars>>

\* One call of the save function, to its end.
V_Save ==
    /\ sv_pc = "call"
    /\ \E k \in 0..Len(StepsOf(sv_backend, sv_recreate)) :
       \E left \in LeftByFailedInsert(sv_backend, sv_data) :
          LET out == save_annuity_data(sv_backend, sv_data, sv_recreate,
                                       sv_table, k, left)
          IN  /\ sv_table' = out.table
              /\ db_calls' = out.db_calls
              /\ save_status' = out.save_status
              /\ save_raised' = out.save_raised
    /\ sv_pc' = "ended"
    /\ UNCHANGED <<notSaveVars, sv_backend, sv_data, sv_recreate, sv_before>>

\* The caller saves the next batch into the same table.
V_Again ==
    /\ sv_pc = "ended"
    /\ Len(sv_table.rows) <= MaxBatch + 1
    /\ \E data \in Seqs(BatchRecords, MaxBatch), recreate \in BOOLEAN :
        /\ sv_data' = data
        /\ sv_recreate' = recreate
    /\ sv_before' = sv_table
    /\ db_calls' = <<>> /\ save_status' = "none" /\ save_raised' = "none"
    /\ sv_pc' = "call"
    /\ UNCHANGED <<notSaveVars, sv_backend, sv_table>>

NextSave == V_Save \/ V_Again

SpecSave == InitSave /\ [][NextSave]_vars

\* ------------------------------------------------------------ save_to_csv

\* The most records handed to save_to_csv.
MaxCsvRows == 2

preferred_order ==
    <<<<"Carrier_Product_Name">>, <<"AM_Best">>, <<"Max_Issue_Age">>,
      <<"Min_Premium">>, <<"SC_Years">>, <<"Free_Withdrawal_Yr1_Yr2">>,
      <<"Last_Change">>, <<"Premium_Bonus">>, <<"Current_Rate">>,
      <<"Base_Rate">>, <<"Years_Rate_GTD">>, <<"GTD_Yield_Surrender">>,
      <<"Commission">>>>

\* Every key a record handed to save_to_csv holds here, in the order
\* Python sorts the key strings (by code point: a lower-case letter comes
\* after every upper-case one).
CsvSortedKeys ==
    <<<<"AM_Best">>, <<"Base_Rate">>, <<"Carrier_Product_Name">>,
      <<"Commission">>, <<"Company_Product_Name">>, NameLinks,
      <<"Current_Rate">>, <<"Free_Withdrawal_Yr1_Yr2">>, <<"GTD_Yield_Rate">>,
      <<"GTD_Yield_Surrender">>, <<"Last_Change">>, <<"Max_Issue_Age">>,
      <<"Min_Premium">>, <<"Notes">>, <<"Premium_Bonus">>, <<"SC_Years">>,
      <<"Years">>, <<"Years_Rate_GTD">>, <<"page_number">>>>

\* "for row in data: all_columns.update(row.keys())"
AllColumns(data) == UNION {DOMAIN data[i] : i \in DOMAIN data}

\* The columns with the remaining keys put first.
csv_columns_RestFirst(data) ==
    SelectSeq(CsvSortedKeys,
              LAMBDA k : k \in AllColumns(data)
                         /\ \A i \in DOMAIN preferred_order : preferred_order[i] # k)
    \o SelectSeq(preferred_order, LAMBDA col : col \in AllColumns(data))

\* "columns": the names of preferred_order that are in all_columns, each
\* removed from the set as it is appended, then sorted(list(all_columns)).
csv_columns(data) ==
    LET all_columns == AllColumns(data)
        first == SelectSeq(preferred_order, LAMBDA col : col \in all_columns)
        remaining == all_columns \ {first[i] : i \in DOMAIN first}
    IN  first \o SelectSeq(CsvSortedKeys, LAMBDA k : k \in remaining)

\* A raw row with a cell in each of the columns 1 to 14, and the record
\* map_column_headers makes of it.
FullRawRow ==
    [k \in {ColumnKey(n) : n \in 1..14} |-> Str(<<"1">>)] @@ BrowserMeta(1, 0)
FullRecord == map_column_headers(<<FullRawRow>>)[1]

\* Records of a crawl (mapped rows), and records with other keys.
CrawlRecords == {FullRecord, rA, map_column_headers(<<ProductRow("A")>>)[1]}
OtherRecords ==
    { (<<"Carrier_Product_Name">> :> Str(<<"A">>))
        @@ (<<"Commission">> :> Str(<<"c">>))
        @@ (<<"page_number">> :> PyInt(1)) @@ (<<"Notes">> :> Str(<<"n">>)),
      (<<"Years_Rate_GTD">> :> Str(<<"3">>)) @@ (Best :> Str(<<"x">>))
        @@ (NameLinks :> Links(<<"u">>)),
      EmptyDict }

InitCsv ==
    /\ variant = "browser"
    /\ max_pages = <<>>
    /\ start_page = 1
    /\ pc = "off"
    /\ page_num = 1
    /\ consecutive_empty_pages = 0
    /\ last_page_data_signature = NoneValue
    /\ all_data = <<>>
    /\ page_data = List(<<>>)
    /\ result = <<>>
    /\ driver = "none"
    /\ log = <<>>
    /\ hist = <<>>
    /\ db_calls = <<>>
    /\ save_status = "none"
    /\ save_raised = "none"
    /\ dd_in = <<>> /\ dd_out = <<>> /\ dd_again = <<>> /\ dd_pc = "off"
    /\ dd_removed = 0 /\ dd_pad_in = <<>> /\ dd_pad_out = <<>>
    /\ ExIdle
    /\ MpIdle
    /\ TyIdle
    /\ SvIdle
    /\ cv_data \in Seqs(CrawlRecords \cup OtherRecords, MaxCsvRows)
    /\ cv_header = <<>>
    /\ cv_pc = "call"

notCsvVars == <<variant, max_pages, start_page, pc, loopVars, result, driver,
                log, hist, dbVars, ddVars, exVars, mpVars, tyVars, svVars>>

\* save_to_csv(data, filename), to its end: nothing is written for an
\* empty list; else the header and the rows are written, unless opening or
\* writing the file raises, which is caught and printed.
C_SaveToCsv ==
    /\ cv_pc = "call"
    /\ IF cv_data = <<>>
       THEN cv_pc' = "nothing" /\ cv_header' = cv_header
       ELSE \/ cv_pc' = "written" /\ cv_header' = csv_columns(cv_data)
            \/ cv_pc' = "failed" /\ cv_header' = cv_header
    /\ UNCHANGED <<notCsvVars, cv_data>>

NextCsv == C_SaveToCsv

SpecCsv == InitCsv /\ [][NextCsv]_vars

\* ------------------------------------------------ reading the history

Finished == pc \in {"dedup", "return", "close", "done", "exit"}

\* The empty-or-failed pages at the end of a history.
RECURSIVE TrailingEmpty(_)
TrailingEmpty(h) ==
    IF h = <<>> \/ h[Len(h)].kind = "data" THEN 0
    ELSE 1 + TrailingEmpty(SubSeq(h, 1, Len(h) - 1))

\* The page numbers of the requests sent, in order.
GetEvents == SelectSeq(log, LAMBDA e : e.ev = "get")
PagesRequested == {GetEvents[i].arg : i \in 1..Len(GetEvents)}
Logins == SelectSeq(log, LAMBDA e : e.ev = "login")

CapGiven == max_pages # <<>> /\ max_pages[1] >= 1

\* The signature as the claims describe it: the (name, rate) pairs of the
\* first min(3, n) records, plus those of the last 3 when n > 6.
PairOf(r) == <<Get(r, Name), Get(r, Rate)>>
SampledPairs(rows) ==
    LET n == Len(rows)
    IN  [i \in 1..Min(3, n) |-> PairOf(rows[i])]
        \o (IF n > 6 THEN [i \in 1..3 |-> PairOf(rows[n - 3 + i])] ELSE <<>>)

RowsOf(h) == Concat([i \in 1..Len(h) |-> h[i].rows])

\* ---------------------------------------------------------------- C1
\* C1: whatever the pages hold, both loops stop after at most three
\* consecutive empty-or-failed pages, and after requesting max_pages pages
\* when a max_pages >= 1 is given: never a fourth empty page in a row, no
\* request once three pages in a row were empty or failed, and never more
\* than max_pages distinct pages requested, the browser loop being over and
\* the HTTP loop unable to request once max_pages pages are folded.
C1_StopsWithinLimits ==
    /\ TrailingEmpty(hist) <= 3
    /\ (TrailingEmpty(hist) = 3 /\ pc # "fold") => Finished
    /\ CapGiven =>
        /\ Cardinality(PagesRequested) <= max_pages[1]
        /\ (Len(hist) = max_pages[1] /\ pc # "fold") =>
              IF variant = "browser" THEN Finished
              ELSE pc \in {"sleep", "loop", "return", "done"} /\ ~ENABLED H_Get

C1_Witness ==
    /\ variant = "browser" /\ pc = "exit" /\ max_pages = <<>>
    /\ [i \in 1..Len(hist) |-> hist[i].kind] = <<"data", "failed", "empty", "empty">>

\* ---------------------------------------------------------------- C2
\* C2: browser variant: when a page with rows has the same sampled (name,
\* rate) pairs as the page requested immediately before it, the loop stops
\* at that page and the accumulator holds none of its records (it holds the
\* rows of the pages before it and nothing else).
C2_RepeatedPageStops ==
    LET n == Len(hist)
    IN  (/\ variant = "browser" /\ n >= 2 /\ pc # "fold"
         /\ hist[n].kind = "data" /\ hist[n - 1].kind = "data"
         /\ SampledPairs(hist[n].rows) = SampledPairs(hist[n - 1].rows))
        => /\ Finished
           /\ all_data = RowsOf(SubSeq(hist, 1, n - 1))

C2_Witness ==
    /\ variant = "browser" /\ pc = "done" /\ Len(hist) = 3
    /\ hist[2].rows = PgL /\ hist[3].rows = PgL2

\* ---------------------------------------------------------------- C3
\* The cap of a run that was given one is reached.
CapReached == CapGiven /\ Len(hist) >= max_pages[1]

\* C3: the empty-page counter equals the number of empty-or-failed pages
\* requested since the last page that yielded records and never exceeds 3;
\* a loop that ended on an empty-or-failed page short of the cap has the
\* counter at 3; and once a page with rows that follows one or two
\* empty-or-failed pages is folded, the counter is 0 and, short of the cap,
\* the crawl goes on to the next page number.
C3_CounterTracksEmpties ==
    LET n == Len(hist)
    IN  /\ consecutive_empty_pages <= 3
        /\ pc # "fold" => consecutive_empty_pages = TrailingEmpty(hist)
        /\ (Finished /\ n >= 1 /\ hist[n].kind # "data" /\ ~CapReached)
              => consecutive_empty_pages = 3
        /\ (n >= 2 /\ pc # "fold" /\ hist[n].kind = "data" /\ hist[n - 1].kind # "data")
              => /\ consecutive_empty_pages = 0
                 /\ ~CapReached =>
                        \/ pc = "sleep" /\ page_num = hist[n].page
                        \/ pc \in {"loop", "relogin", "reget"} /\ page_num = hist[n].page + 1

\* ---------------------------------------------------------------- C4
\* C4: a failed page is handled exactly like an empty page: whenever the
\* loop body takes in what scrape_page returned for a failed page, the
\* counter, the accumulator, the signature kept and the place the loop goes
\* to next (break, or pause and next page) are those it would have reached
\* had the page been empty.
C4_FailedLikeEmpty ==
    (pc = "fold" /\ hist[Len(hist)].kind = "failed") =>
        IF variant = "browser"
        THEN BrowserFold(all_data, consecutive_empty_pages,
                         last_page_data_signature, max_pages, page_num,
                         page_data.rows)
             = BrowserFold(all_data, consecutive_empty_pages,
                           last_page_data_signature, max_pages, page_num, <<>>)
        ELSE HttpFold(all_data, consecutive_empty_pages, page_num, page_data)
             = HttpFold(all_data, consecutive_empty_pages, page_num, List(<<>>))

C4_Witness ==
    /\ variant = "http" /\ pc = "fold" /\ Len(hist) = 3
    /\ hist[1].kind = "data" /\ hist[2].kind = "empty" /\ hist[3].kind = "failed"
    /\ page_data = NonePage

\* ---------------------------------------------------------------- C5
RECURSIVE LastDataBefore(_, _)
LastDataBefore(h, i) ==
    IF i = 0 THEN 0
    ELSE IF h[i].kind = "data" THEN i ELSE LastDataBefore(h, i - 1)

\* The browser loop ended on the repeated-signature test.
RepeatStop ==
    LET n == Len(hist)
        j == LastDataBefore(hist, n - 1)
    IN  /\ variant = "browser" /\ n >= 2 /\ hist[n].kind = "data" /\ j > 0
        /\ create_page_signature(hist[j].rows) = create_page_signature(hist[n].rows)

\* The rows of every page of a history, as the variant accumulates them.
ExpectedRows(h) ==
    IF variant = "browser" THEN RowsOf(h)
    ELSE Concat([i \in 1..Len(h) |-> WithPageNumber(h[i].rows, h[i].page)])

\* C5: with max_pages = N >= 1 only pages 1..N (browser) or
\* start_page..start_page+N-1 (HTTP) are ever requested, and a loop that
\* ended with neither three consecutive empty pages nor a repeated
\* signature requested exactly these N pages and holds all their records.
C5_CapBoundsRequests ==
    CapGiven =>
        /\ PagesRequested \subseteq start_page..(start_page + max_pages[1] - 1)
        /\ (pc \in {"dedup", "return"} /\ TrailingEmpty(hist) < 3 /\ ~RepeatStop)
              => /\ PagesRequested = start_page..(start_page + max_pages[1] - 1)
                 /\ all_data = ExpectedRows(hist)

C5_Witness ==
    /\ variant = "http" /\ pc = "return" /\ start_page = 2 /\ max_pages = <<3>>
    /\ [i \in 1..Len(hist) |-> hist[i].kind] = <<"data", "empty", "data">>

\* ---------------------------------------------------------------- C6
\* The position of the last request before position j of the log (0: none).
RECURSIVE PrevGet(_)
PrevGet(j) ==
    IF j <= 1 THEN 0
    ELSE IF log[j - 1].ev = "get" THEN j - 1 ELSE PrevGet(j - 1)

C7_SequentialPages ==
    /\ \A i \in 1..Len(hist) : hist[i].page = start_page + i - 1
    /\ \A i \in 1..Len(GetEvents) :
          IF i = 1 THEN GetEvents[i].arg = start_page
          ELSE GetEvents[i].arg - GetEvents[i - 1].arg
                  \in (IF variant = "browser" THEN {1} ELSE {0, 1})
    /\ \A j \in 1..Len(log) :
          LET i == PrevGet(j)
          IN  (log[j].ev = "get" /\ i > 0 /\ log[i].arg # log[j].arg)
              => \E k \in (i + 1)..(j - 1) : log[k] = Ev("fold", log[i].arg)
    /\ pc \in {"sleep", "loop", "relogin", "reget"} =>
          /\ all_data = ExpectedRows(hist)
          /\ consecutive_empty_pages = TrailingEmpty(hist)
          /\ Len(SelectSeq(log, LAMBDA e : e.ev = "fold")) = Len(hist)

C7_Witness ==
    /\ variant = "http" /\ pc = "loop" /\ Len(hist) = 3
    /\ Len(GetEvents) = 4 /\ all_data # <<>>

\* ---------------------------------------------------------------- C8
\* Equal on all non-link fields after trimming.
NonLinkKeys(r) == {k \in DOMAIN r : ~EndsWithLinks(k)}
Trimmed(v) == IF IsStr(v) THEN Str(Strip(v[2])) ELSE v
SameProduct(r1, r2) ==
    /\ NonLinkKeys(r1) = NonLinkKeys(r2)
    /\ \A k \in NonLinkKeys(r1) : Trimmed(r1[k]) = Trimmed(r2[k])

\* The pages whose rows the browser loop accepted: every page but a last one
\* that ended the loop as a repeat.
AcceptedPages ==
    IF RepeatStop THEN SubSeq(hist, 1, Len(hist) - 1) ELSE hist

\* C8: what the browser variant's scrape_all_pages returns is
\* remove_duplicates of the concatenation, in page order, of the rows of the
\* accepted pages, and it never holds two records equal on all non-link
\* fields after trimming, whichever condition ended the loop.
C8_ReturnsDeduplicated ==
    (variant = "browser" /\ pc \in {"close", "done", "exit"}) =>
        /\ result = remove_duplicates(RowsOf(AcceptedPages))
        /\ \A i, j \in 1..Len(result) : i < j => ~SameProduct(result[i], result[j])

C8_Witness ==
    /\ variant = "browser" /\ pc = "done" /\ Len(hist) = 3
    /\ hist[1].rows = PgA /\ hist[2].rows = PgC /\ hist[3].rows = PgC
    /\ result = <<rA, rB, rC>>

\* ---------------------------------------------------------------- C9
Count(seq, x) == Len(SelectSeq(seq, LAMBDA e : e = x))
GetsOf(p) == Count(log, Ev("get", p))

\* C9 as stated: no automatic retry anywhere: scrape_page requests each
\* page at most once, login is attempted at most once, and a failed insert
\* is raised to the caller without a second attempt.
C9_NoRetryAnywhere ==
    /\ \A p \in PagesRequested : GetsOf(p) <= 1
    /\ Len(Logins) <= 1
    /\ Count(db_calls, "insert") <= 1
    /\ save_raised = "insert" => save_status = "raised" /\ db_calls[Len(db_calls)] = "insert"

\* C9 amended: in the browser variant scrape_page requests each page at most
\* once and login is attempted at most once, and a failed insert is raised
\* to the caller without a second attempt; the HTTP variant scrapes each
\* page at most once but
\* retries inside scrape_page: after a redirect to the login page it logs in
\* again, at most once per page, and only directly after a successful
\* re-login requests the same page a second and last time.
C9_RetryOnlyAfterRelogin ==
    /\ \A i, j \in 1..Len(hist) : i # j => hist[i].page # hist[j].page
    /\ variant = "browser" =>
          /\ \A p \in PagesRequested : GetsOf(p) <= 1
          /\ Len(Logins) <= 1
    /\ variant = "http" =>
          /\ \A p \in PagesRequested : GetsOf(p) <= 2
          /\ Len(Logins) <= 1 + Cardinality(PagesRequested)
          /\ \A j \in 1..Len(log) :
                /\ (log[j].ev = "login" /\ j > 1) => log[j - 1].ev = "get"
                /\ (log[j].ev = "get" /\ PrevGet(j) > 0
                        /\ log[PrevGet(j)].arg = log[j].arg)
                      => PrevGet(j) = j - 2 /\ log[j - 1].ev = "login"
    /\ Count(db_calls, "insert") <= 1
    /\ save_raised = "insert" => save_status = "raised" /\ db_calls[Len(db_calls)] = "insert"

C9_Witness ==
    /\ variant = "browser" /\ pc = "exit" /\ save_raised = "insert"
    /\ Len(hist) = 2 /\ Len(Logins) = 1

C9_WitnessRelogin ==
    /\ variant = "http" /\ pc = "done" /\ Len(Logins) = 3
    /\ \E p \in PagesRequested : GetsOf(p) = 2

\* --------------------------------------------------------------- C10
\* C10: remove_duplicates is idempotent: applied to its own output it
\* returns that output, the same records in the same order.
C10_Idempotent == dd_pc = "twice" => dd_again = dd_out

C10_Witness ==
    /\ dd_pc = "twice" /\ dd_in = <<d2, d3, d1>> /\ dd_out = <<d2>>

\* --------------------------------------------------------------- C11
\* An earlier record of the list equal to record i on all non-link fields
\* after trimming.
Earlier(data, i) == \E j \in 1..(i - 1) : SameProduct(data[j], data[i])
\* The first position of the list holding a record equal to r.
FirstPos(data, r) ==
    CHOOSE j \in 1..Len(data) :
        /\ SameProduct(data[j], r)
        /\ \A m \in 1..(j - 1) : ~SameProduct(data[m], r)
KeptPositions(data) == {i \in 1..Len(data) : ~Earlier(data, i)}
\* The records of the list at the given positions, in list order.
Pick(data, positions) ==
    LET idx == SelectSeq([i \in 1..Len(data) |-> i], LAMBDA i : i \in positions)
    IN  [k \in 1..Len(idx) |-> data[idx[k]]]
DedupApplied == dd_pc \in {"once", "twice", "padded"}

\* C11: the output of remove_duplicates holds, for every class of equal
\* records of the input, exactly one record, which is the first occurrence
\* of the class as it stands in the input (untrimmed, links and all), and
\* the classes come in the order of their first occurrences; whitespace
\* added in front of or behind a string value of a record leaves the kept
\* input positions unchanged.
C11_FirstOccurrenceKept ==
    /\ DedupApplied =>
          /\ \A i \in 1..Len(dd_in) :
                LET ks == {k \in 1..Len(dd_out) : SameProduct(dd_out[k], dd_in[i])}
                IN  /\ Cardinality(ks) = 1
                    /\ \A k \in ks : dd_out[k] = dd_in[FirstPos(dd_in, dd_in[i])]
          /\ \A k \in 1..Len(dd_out) :
                \E i \in 1..Len(dd_in) : SameProduct(dd_in[i], dd_out[k])
          /\ \A k, l \in 1..Len(dd_out) :
                k < l => FirstPos(dd_in, dd_out[k]) < FirstPos(dd_in, dd_out[l])
    /\ dd_pc = "padded" =>
          dd_pad_out = Pick(dd_pad_in, KeptPositions(dd_in))

C11_Witness ==
    /\ dd_pc = "padded"
    /\ dd_in = <<d3, d6, d1>>
    /\ dd_pad_in = <<d3, d6, [d1 EXCEPT ![Rate] = Str(<<" ", "1">>)]>>
    /\ dd_pad_out = <<d3, d6>>

\* --------------------------------------------------------------- C12
\* C12: remove_duplicates drops the record at a position exactly when an
\* earlier record of the input has the same non-link keys with values
\* equal after trimming; the count of removed duplicates is the length of
\* the input less the length of the output; the empty list gives the empty
\* list.
C12_DropsExactlyLaterEquals ==
    DedupApplied =>
        /\ dd_out = Pick(dd_in, KeptPositions(dd_in))
        /\ dd_removed = Len(dd_in) - Len(dd_out)
        /\ dd_in = <<>> => (dd_out = <<>> /\ dd_removed = 0)

C12_Witness ==
    /\ dd_pc = "once"
    /\ dd_in = <<d7, d8, d4>>
    /\ dd_out = <<d7, d4>>
    /\ dd_removed = 1

\* --------------------------------------------------------------- C13
\* The key the claim gives the cell at position c: the header text, or
\* Column_c for a blank header or a position past the header.
KeyAt(header_row, c) ==
    IF c <= Len(header_row) /\ Strip(header_row[c].text) # <<>>
    THEN Strip(header_row[c].text)
    ELSE ColumnKey(c)
\* The first n cells of a row zipped to the header by position, a later
\* cell taking the place of an earlier one under the same key.
ZipCols(header_row, cells, n) ==
    [key \in {KeyAt(header_row, c) : c \in 1..n} |->
        LET c == CHOOSE c \in 1..n :
                    /\ KeyAt(header_row, c) = key
                    /\ \A c2 \in (c + 1)..n : KeyAt(header_row, c2) # key
        IN  Str(Strip(cells[c].text))]
MetaKeys == {PageNumber, RowIndex, SourceUrl, TableIndex}
\* A record without the scraping metadata and the link annotations.
ColumnPart(rec) ==
    [k \in {k \in DOMAIN rec : k \notin MetaKeys /\ ~EndsWithLinks(k)} |-> rec[k]]
ExampleRecords ==
    <<(Company :> Str(<<"Acme">>)) @@ (<<"Rate">> :> Str(<<"4.25">>)),
      (Company :> Str(<<"Beta">>)) @@ (<<"Rate">> :> Str(<<"5.00">>))>>

\* The claim as stated, of the records an extractor returned for a table.
RowsMinusOne(recs, t) ==
    /\ Len(recs) = Len(t.rows) - 1
    /\ \A k \in 1..Len(recs) :
          LET cells == t.rows[k + 1]
              header_row == t.rows[1]
              zipped == ZipCols(header_row, cells,
                                Min(Len(cells), Len(header_row)))
          IN  /\ \A key \in DOMAIN zipped :
                    key \in DOMAIN recs[k] /\ recs[k][key] = zipped[key]
              /\ \A c \in (Len(cells) + 1)..Len(header_row) :
                    KeyAt(header_row, c) \in DOMAIN recs[k]
                        => KeyAt(header_row, c) \in DOMAIN zipped
    /\ t = ExampleTable =>
          [k \in 1..Len(recs) |-> ColumnPart(recs[k])] = ExampleRecords

OneTable ==
    /\ ex_markup.parses /\ Len(ex_markup.tables) = 1
    /\ Len(ex_markup.tables[1].rows) >= 2

\* C13 as stated: for a table of r >= 2 rows each variant's
\* extract_table_data returns r - 1 records in row order whose column keys
\* are the header texts zipped to the cells by position, Column_N standing
\* for a blank header, a short row omitting the trailing fields; the example
\* table gives the two example records.
C13_ReturnsRowsMinusOne ==
    OneTable =>
        /\ ex_pc \in {"browser", "http", "scraped", "folded"} =>
              RowsMinusOne(ex_out.rows, ex_markup.tables[1])
        /\ ex_pc \in {"http", "scraped", "folded"} =>
              RowsMinusOne(ex_http.rows, ex_markup.tables[1])

\* The raw records the claim as amended expects of a table: one for every
\* data row that has a cell, in row order, its column keys zipped by
\* position over all its cells, its link annotations beside them.
ExpectedRaw(t) ==
    LET idx == SelectSeq([i \in 1..(Len(t.rows) - 1) |-> i + 1],
                         LAMBDA j : Len(t.rows[j]) >= 1)
    IN  [k \in 1..Len(idx) |->
            [cols |-> ZipCols(t.rows[1], t.rows[idx[k]], Len(t.rows[idx[k]])),
             row_index |-> PyInt(idx[k] - 2),
             linked |-> {LinksKey(KeyAt(t.rows[1], c)) :
                           c \in {c \in 1..Len(t.rows[idx[k]]) :
                                    t.rows[idx[k]][c].links # <<>>}}]]
MatchesRaw(recs, expected) ==
    /\ Len(recs) = Len(expected)
    /\ \A k \in 1..Len(recs) :
          /\ ColumnPart(recs[k]) = expected[k].cols
          /\ recs[k][RowIndex] = expected[k].row_index
          /\ {key \in DOMAIN recs[k] : EndsWithLinks(key)} = expected[k].linked
\* The tables the HTTP variant extracts from.
HttpExtracts(t) ==
    /\ t.class \cap SkippedClasses = {}
    /\ Len(t.rows) >= 2 /\ Len(t.rows[1]) >= 1

\* C13 amended: for a table of r >= 2 rows that an extractor extracts from
\* (HTTP: class none of nav/menu/header/footer, a header row with a cell),
\* the raw records (the HTTP variant's return value; in the browser variant
\* the list handed to map_column_headers, whose result is what is returned)
\* are one per data row that has a cell, in row order, their column keys
\* the header texts zipped to the cells by position, Column_N standing for
\* a blank header and for a cell past the header, a short row omitting the
\* trailing fields.  The example table gives the two example records in the
\* HTTP variant and as raw records in the browser variant, which returns []
\* for it, both rows being classified as grouping rows.
C13_RawRecordPerCellRow ==
    OneTable =>
        LET t == ex_markup.tables[1]
        IN  /\ ex_pc \in {"browser", "http", "scraped", "folded"} =>
                  /\ MatchesRaw(ex_raw, ExpectedRaw(t))
                  /\ ex_out.rows = map_column_headers(ex_raw)
                  /\ t = ExampleTable =>
                        /\ [k \in 1..Len(ex_raw) |-> ColumnPart(ex_raw[k])]
                              = ExampleRecords
                        /\ ex_out.rows = <<>>
            /\ ex_pc \in {"http", "scraped", "folded"} =>
                  /\ HttpExtracts(t) => MatchesRaw(ex_http.rows, ExpectedRaw(t))
                  /\ ~HttpExtracts(t) => ex_http.rows = <<>>
                  /\ t = ExampleTable =>
                        [k \in 1..Len(ex_http.rows) |-> ColumnPart(ex_http.rows[k])]
                            = ExampleRecords

C13_Witness ==
    /\ ex_pc = "http"
    /\ ex_markup = Accepted(<<ExampleTable>>)
    /\ ex_http.rows =
          <<HttpMeta(0, 0) @@ ExampleRecords[1], HttpMeta(0, 1) @@ ExampleRecords[2]>>
    /\ Len(ex_raw) = 2 /\ ex_out.rows = <<>>

\* --------------------------------------------------------------- C14
\* The column count of a table's first row (0: no row).
Cols(t) == IF Len(t.rows) >= 1 THEN Len(t.rows[1]) ELSE 0
\* The first position of S at which f is greatest.
FirstGreatest(S, f(_)) ==
    CHOOSE i \in S : \A j \in S : f(j) < f(i) \/ (f(j) = f(i) /\ i <= j)
\* The raw records of table i of the page alone (none for i = 0).
RawOf(tables, i) ==
    IF i = 0 THEN <<>>
    ELSE IF Len(tables[i].rows) < 1 THEN <<>>
    ELSE LET meta == [row_idx \in 0..(Len(tables[i].rows) - 2) |->
                         BrowserMeta(page_num, row_idx)]
         IN  DataRows(tables[i].rows, Headers(tables[i].rows[1]), meta, TRUE)
\* The selection among the tables in S: the widest, or when S is empty the
\* table of the page with the most rows.
SelectFrom(tables, S) ==
    LET cols(i) == Cols(tables[i])
        nrows(i) == Len(tables[i].rows)
    IN  IF S # {} THEN FirstGreatest(S, cols)
        ELSE IF tables = <<>> THEN 0
        ELSE FirstGreatest(DOMAIN tables, nrows)
BrowserExtracted ==
    ex_markup.parses /\ ex_pc \in {"browser", "http", "scraped", "folded"}

\* C14 as stated: the browser extractor takes its records from the table
\* with the most columns in its first row among the tables with at least
\* 10 columns (the first on a tie), or when there is none from the table
\* with the most rows (the first on a tie), and from that table only.
C14_WidestOfTenColumns ==
    BrowserExtracted =>
        LET tables == ex_markup.tables
            S == {i \in DOMAIN tables : Cols(tables[i]) >= 10}
        IN  /\ ex_raw = RawOf(tables, SelectFrom(tables, S))
            /\ ex_out.rows = map_column_headers(ex_raw)

\* C14 amended: as stated, but only a table with at least two rows counts
\* among the tables with at least 10 columns.
C14_WidestOfTenColumnsTwoRows ==
    BrowserExtracted =>
        LET tables == ex_markup.tables
            S == {i \in DOMAIN tables :
                    Len(tables[i].rows) >= 2 /\ Cols(tables[i]) >= 10}
        IN  /\ ex_raw = RawOf(tables, SelectFrom(tables, S))
            /\ ex_out.rows = map_column_headers(ex_raw)

C14_Witness ==
    /\ ex_pc = "browser"
    /\ ex_markup = Accepted(<<W12one, W10, L3>>)
    /\ ex_raw = RawOf(ex_markup.tables, 2)
    /\ ex_out.rows = map_column_headers(ex_raw)
    /\ Len(ex_out.rows) = 1

C14_WitnessTie ==
    /\ ex_pc = "browser"
    /\ ex_markup = Accepted(<<W10, W12a, W12b>>)
    /\ ex_raw = RawOf(ex_markup.tables, 2)
    /\ Len(ex_out.rows) = 1

\* --------------------------------------------------------------- C15
\* No table of the page has a data row with a cell (no table at all, only
\* tables of fewer than two rows, only rows without cells).
NoUsableTable(tables) ==
    \A i \in DOMAIN tables :
        \A j \in 2..Len(tables[i].rows) : Len(tables[i].rows[j]) = 0
NothingToExtract == ~ex_markup.parses \/ NoUsableTable(ex_markup.tables)
\* The loop has counted the page as an empty page: nothing added, the
\* counter one higher, and the loop goes on unless that ends it.
FoldedAsEmpty ==
    /\ all_data' = all_data
    /\ consecutive_empty_pages' = consecutive_empty_pages + 1
    /\ pc' = IF consecutive_empty_pages + 1 >= 3
             THEN (IF variant = "browser" THEN "dedup" ELSE "return")
             ELSE IF variant = "browser" /\ MaxPagesReached(max_pages, page_num)
             THEN "dedup"
             ELSE "sleep"
FoldStep == ex_pc = "scraped" /\ ex_pc' = "folded"

\* C15 as stated: for a page without tables or with markup that gives no
\* usable table, extract_table_data of either variant returns [] and raises
\* nothing, and the loop counts the page as an empty page and runs on.
C15_EmptyListNoError ==
    /\ [](NothingToExtract =>
            /\ ex_pc \in {"browser", "http", "scraped", "folded"} => ex_out = NoOutcome
            /\ ex_pc \in {"http", "scraped", "folded"} => ex_http = NoOutcome)
    /\ [][(FoldStep /\ NothingToExtract) => FoldedAsEmpty]_vars

\* C15 amended: for a page without tables or without a usable table,
\* extract_table_data of either variant returns [] and raises nothing; when
\* the parser raises on the markup, the browser variant's extract_table_data
\* catches it and returns [], the HTTP variant's lets it out and scrape_page
\* catches it and returns None; in each case the loop counts the page as an
\* empty page and is not aborted: it goes on to the next page unless the
\* third consecutive empty page or the page cap ends it.
C15_EmptyOrCaughtByScrapePage ==
    /\ [](NothingToExtract =>
            /\ ex_pc \in {"browser", "http", "scraped", "folded"} => ex_out = NoOutcome
            /\ ex_pc \in {"http", "scraped", "folded"} =>
                  ex_http = [raised |-> ~ex_markup.parses, rows |-> <<>>]
            /\ ex_pc \in {"scraped", "folded"} =>
                  page_data = IF variant = "http" /\ ~ex_markup.parses
                              THEN NonePage ELSE List(<<>>))
    /\ [][(FoldStep /\ NothingToExtract) => FoldedAsEmpty]_vars

C15_Witness ==
    /\ ex_pc = "folded" /\ variant = "http"
    /\ ex_markup = Rejected
    /\ ex_http.raised /\ page_data = NonePage
    /\ consecutive_empty_pages = 2 /\ pc = "sleep"

C15_WitnessNoTables ==
    /\ ex_pc = "folded" /\ variant = "browser"
    /\ ex_markup = Accepted(<<>>)
    /\ ex_out = NoOutcome /\ page_data = List(<<>>)
    /\ consecutive_empty_pages = 3 /\ pc = "dedup"

\* --------------------------------------------------------------- C16
KeyColumns == {2, 3, 4, 10}
\* The column holds a value that, trimmed, is not empty and is none of
\* "-", "N/A", "NR".
Populated(row, n) ==
    /\ ColumnKey(n) \in DOMAIN row
    /\ Strip(row[ColumnKey(n)][2])
          \notin {<<>>, <<"-">>, <<"N", "/", "A">>, <<"N", "R">>}
FewerThanTwoPopulated(row) ==
    Cardinality({n \in KeyColumns : Populated(row, n)}) < 2
KeptRows == SelectSeq(mp_in, LAMBDA row : ~FewerThanTwoPopulated(row))

\* C16: is_grouping_row(row) is true exactly when fewer than two of
\* Column_2, Column_3, Column_4, Column_10 are populated, whatever the other
\* columns (Column_1 included) hold, and map_column_headers returns one
\* record for every row not so classified, in order, and none for the
\* others.
C16_GroupingIffFewerThanTwo ==
    /\ mp_pc \in {"classified", "mapped"} =>
          \A i \in 1..Len(mp_in) : mp_class[i] = FewerThanTwoPopulated(mp_in[i])
    /\ mp_pc = "mapped" =>
          /\ Len(mp_out) = Len(KeptRows)
          /\ \A k \in 1..Len(mp_out) :
                \A n \in KeyColumns :
                    ColumnKey(n) \in DOMAIN KeptRows[k] =>
                        \E name \in DOMAIN mp_out[k] :
                            mp_out[k][name] = KeptRows[k][ColumnKey(n)]

C16_Witness ==
    /\ mp_pc = "mapped"
    /\ mp_in = <<GroupRow, ProductRow("A")>>
    /\ mp_class = <<TRUE, FALSE>>
    /\ Len(mp_out) = 1 /\ mp_out[1][Name] = Str(<<"A">>)

\* --------------------------------------------------------------- C17
\* The 13 semantic names, in the order of Column_2 .. Column_14.
SemanticNames ==
    <<<<"Company_Product_Name">>, <<"AM_Best">>, <<"Max_Issue_Age">>,
      <<"Min_Premium">>, <<"SC_Years">>, <<"Free_Withdrawal_Yr1_Yr2">>,
      <<"Last_Change">>, <<"Premium_Bonus">>, <<"Current_Rate">>,
      <<"Base_Rate">>, <<"Years">>, <<"GTD_Yield_Rate">>, <<"Commission">>>>

\* C17: every record map_column_headers returns has only keys among the 13
\* semantic names, the name of Column_N present exactly when the raw row
\* held Column_N; Column_1, columns past Column_14, link annotations and
\* the scraping metadata never appear.
C17_OnlyMappedKeys ==
    mp_pc = "mapped" =>
        /\ Len(mp_out) = Len(KeptRows)
        /\ \A k \in 1..Len(mp_out) :
              /\ DOMAIN mp_out[k] \subseteq {SemanticNames[i] : i \in 1..13}
              /\ \A i \in 1..13 :
                    SemanticNames[i] \in DOMAIN mp_out[k]
                        <=> ColumnKey(i + 1) \in DOMAIN KeptRows[k]
              /\ DOMAIN mp_out[k] \cap
                    ({ColumnKey(n) : n \in 1..16} \cup MetaKeys
                     \cup {LinksKey(ColumnKey(n)) : n \in 1..16}) = {}

C17_Witness ==
    /\ mp_pc = "mapped"
    /\ Len(mp_in) = 1 /\ DOMAIN RestOfRow \subseteq DOMAIN mp_in[1]
    /\ ColumnKey(1) \in DOMAIN mp_in[1]
    /\ Len(mp_out) = 1
    /\ DOMAIN mp_out[1] =
          {Name, Rate, <<"Min_Premium">>, <<"Free_Withdrawal_Yr1_Yr2">>,
           <<"Commission">>}
    /\ mp_out[1][<<"Free_Withdrawal_Yr1_Yr2">>] = Str(<<"1", " ", "/", " ", "2">>)

\* ---------------------------------------------------------------- C18

\* run() of a browser scraper has ended: by a return (pc "done", and
\* "exit" once main has gone on) or by raising (pc "raised").
RunEnded ==
    variant \in BrowserVariants /\ pc \in {"done", "exit", "raised"}

ClosingWithoutDriver ==
    variant \in BrowserVariants /\ pc \in {"close", "unwind"} /\ driver = "none"

\* C18: in the browser-driver variants, whenever run() has ended (by a
\* normal return, by the early return after a failed driver setup or a
\* failed login, or by an exception raised during scraping) no browser
\* session is left open: a session that was opened has been quit; and
\* close() called when no driver was ever created changes nothing (no
\* driver appears, nothing is requested).
C18_DriverReleasedOnEveryExit ==
    /\ [](RunEnded => driver # "open")
    /\ [][ClosingWithoutDriver => (driver' = "none" /\ log' = log)]_vars

\* A run that opened the browser, scraped at least one page and was then
\* left by an exception: the session has been quit by the finally clause.
C18_Witness ==
    /\ variant \in BrowserVariants
    /\ pc = "raised"
    /\ driver = "quit"
    /\ \E i \in 1..Len(log) : log[i].ev = "get"

\* A run whose driver setup failed: close() found no driver.
C18_WitnessNoDriver ==
    /\ variant \in BrowserVariants
    /\ pc = "done"
    /\ driver = "none"
    /\ result = <<>>

\* ---------------------------------------------------------------- C19

\* A request of a data page: a page of the list, or an AJAX call.
RequestsData(e) == e.ev \in {"get", "ajax"}

\* The crawl entry point has returned.
EntryPointReturned == pc \in {"done", "exit"}

\* C19: if a call of login() fails (it returned False, which is also what
\* an exception inside it gives), the run is aborted: no data page is
\* requested after the failed login, and the crawl entry point returns an
\* empty list; in the HTTP, the AJAX and the browser variants.
C19_FailedLoginAborts ==
    \A i \in 1..Len(log) :
        log[i].ev = "login_failed" =>
            /\ \A j \in (i + 1)..Len(log) : ~RequestsData(log[j])
            /\ EntryPointReturned => result = <<>>

\* ---------------------------------------------------------------- C20

\* The values of the column in the rows handed over (a row without the
\* column gives None), the ignored ones left out.
NonEmptyValues(data) ==
    {RowGet(data[i], ty_col) : i \in DOMAIN data} \ EmptyMarks

AllDigits(s) == s # <<>> /\ \A i \in 1..Len(s) : s[i] \in DigitChars
HasPoint(s) == \E i \in 1..Len(s) : s[i] = "."
\* Digits, or digits with one point inside them.
Numeric(s) ==
    \/ AllDigits(s)
    \/ \E k \in 1..Len(s) :
          /\ s[k] = "."
          /\ AllDigits(SubSeq(s, 1, k - 1))
          /\ AllDigits(SubSeq(s, k + 1, Len(s)))

CommasRemoved(v) == SelectSeq(Format(v), LAMBDA c : c # ",")
CommasAndPaddingRemoved(v) == Strip(CommasRemoved(v))

\* The kind of type the stated rule gives the column, the values being
\* read through Norm.
RuleKind(Norm(_), data) ==
    LET vals == NonEmptyValues(data)
    IN  IF vals # {} /\ \A v \in vals : AllDigits(Norm(v)) THEN "integer"
        ELSE IF /\ \A v \in vals : Numeric(Norm(v))
                /\ \E v \in vals : HasPoint(Norm(v))
             THEN "decimal"
        ELSE "text"

KindOf(type) ==
    IF type = "INT" THEN "integer"
    ELSE IF type = NUMERIC_DECIMAL_TYPE THEN "decimal"
    ELSE IF type \in {DEFAULT_COLUMN_TYPE, MSSQL_DEFAULT_COLUMN_TYPE} THEN "text"
    ELSE "other"

\* The column has been typed by both backends and has no explicit override.
TypedWithoutOverride ==
    ty_pc \in {"typed", "reordered"} /\ ty_col \notin DOMAIN ty_over

SameInAnotherOrder ==
    ty_pc = "reordered" =>
        ty_mysql_again = ty_mysql /\ ty_mssql_again = ty_mssql

ColumnOf(values) == [i \in DOMAIN values |-> (ty_col :> Str(values[i]))]
ExampleInteger == ColumnOf(<< <<"1", "0", ",", "0", "0", "0">>, <<"5", "0", "0", "0">> >>)
ExampleDecimal == ColumnOf(<< <<"4", ".", "2", "5">>, <<"5", ".", "0", "0">> >>)
ExampleText == ColumnOf(<< <<"A", "-">>, <<"B", "+">> >>)

\* C20: in both database backends a column without an explicit override
\* is stored as integer iff it has a non-empty value and every non-empty
\* value (None, "", "-", "N/A" are ignored) is digits-only once its commas
\* are removed, as decimal iff every non-empty value is numeric and one of
\* them has a decimal point, and as the generic text type otherwise,
\* whatever the order of the rows; ["10,000","5000"] gives integer,
\* ["4.25","5.00"] decimal and ["A-","B+"] text.
C20_TypeFromValues ==
    TypedWithoutOverride =>
        /\ KindOf(ty_mysql) = RuleKind(CommasRemoved, ty_data)
        /\ KindOf(ty_mssql) = RuleKind(CommasRemoved, ty_data)
        /\ SameInAnotherOrder
        /\ ty_data = ExampleInteger =>
               KindOf(ty_mysql) = "integer" /\ KindOf(ty_mssql) = "integer"
        /\ ty_data = ExampleDecimal =>
               KindOf(ty_mysql) = "decimal" /\ KindOf(ty_mssql) = "decimal"
        /\ ty_data = ExampleText =>
               KindOf(ty_mysql) = "text" /\ KindOf(ty_mssql) = "text"

IntegerByDefault == {<<"Min_Premium">>, <<"Max_Issue_Age">>}
DecimalByDefault == {<<"Current_Rate">>, <<"Base_Rate">>, <<"GTD_Yield_Rate">>}

\* What the SQL Server backend makes of a column the rule leaves as text.
SqlServerKind(kind) ==
    IF kind = "text" /\ ty_col \in IntegerByDefault THEN "integer"
    ELSE IF kind = "text" /\ ty_col \in DecimalByDefault THEN "decimal"
    ELSE kind

\* C20, amended: the same rule with the values read after removing their
\* commas and the whitespace around them (an int counts as digits, a float
\* as a number with a point); where the rule gives text, the SQL Server
\* backend stores Min_Premium and Max_Issue_Age as integer and
\* Current_Rate, Base_Rate and GTD_Yield_Rate as decimal; the order of the
\* rows does not matter; the three examples hold in MySQL, and in SQL
\* Server for every column but these five.
C20_TypeFromStrippedValuesAndDefaults ==
    TypedWithoutOverride =>
        /\ KindOf(ty_mysql) = RuleKind(CommasAndPaddingRemoved, ty_data)
        /\ KindOf(ty_mssql) =
               SqlServerKind(RuleKind(CommasAndPaddingRemoved, ty_data))
        /\ SameInAnotherOrder
        /\ ty_data = ExampleInteger =>
               KindOf(ty_mysql) = "integer" /\ KindOf(ty_mssql) = "integer"
        /\ ty_data = ExampleDecimal =>
               KindOf(ty_mysql) = "decimal" /\ KindOf(ty_mssql) = "decimal"
        /\ ty_data = ExampleText =>
               /\ KindOf(ty_mysql) = "text"
               /\ KindOf(ty_mssql) = SqlServerKind("text")

\* Integers before a decimal, typed as decimal, and typed the same with
\* the decimal first.
C20_Witness ==
    /\ TypedWithoutOverride
    /\ ty_pc = "reordered"
    /\ ty_data = ColumnOf(<< <<"5", "0", "0", "0">>, <<"4", ".", "2", "5">> >>)
    /\ ty_again = ColumnOf(<< <<"4", ".", "2", "5">>, <<"5", "0", "0", "0">> >>)
    /\ KindOf(ty_mysql) = "decimal" /\ KindOf(ty_mssql) = "decimal"

\* The text example in a column SQL Server knows as numeric.
C20_WitnessDefault ==
    /\ TypedWithoutOverride
    /\ ty_col = <<"Current_Rate">>
    /\ ty_data = ExampleText
    /\ ty_mysql = DEFAULT_COLUMN_TYPE
    /\ ty_mssql = NUMERIC_DECIMAL_TYPE

\* Digits inside whitespace, typed as integer.
C20_WitnessPadded ==
    /\ TypedWithoutOverride
    /\ ty_col = <<"Notes">>
    /\ ty_data = ColumnOf(<< <<" ", "7", " ">> >>)
    /\ ty_mysql = "INT" /\ ty_mssql = "INT"

\* ---------------------------------------------------------------- C21

Typed == ty_pc \in {"typed", "reordered"}

\* The types the two save functions give the column when they are handed
\* no overrides at all.
MysqlTypeWithoutOverrides ==
    mysql_column_type(ty_data, <<ty_col>>, EmptyDict, ty_col)
MssqlTypeWithoutOverrides ==
    mssql_column_type(ty_data, <<ty_col>>, EmptyDict, ty_col)

\* C21: a column named in column_type_overrides has the override as its
\* type, in CREATE TABLE and in the conversion of its values, whatever
\* inference or the built-in defaults give it; a column the overrides do
\* not name keeps the type it has without them.
C21_OverridesWin ==
    Typed =>
        /\ ty_col \in DOMAIN ty_over =>
              /\ ty_mysql = ty_over[ty_col] /\ ty_mysql_conv = ty_over[ty_col]
              /\ ty_mssql = ty_over[ty_col] /\ ty_mssql_conv = ty_over[ty_col]
        /\ ty_col \notin DOMAIN ty_over =>
              /\ ty_mysql = MysqlTypeWithoutOverrides
              /\ ty_mysql_conv = MysqlTypeWithoutOverrides
              /\ ty_mssql = MssqlTypeWithoutOverrides
              /\ ty_mssql_conv = MssqlTypeWithoutOverrides

\* A column that inference types INT and SQL Server's defaults know, with
\* a text override: both backends use the override.
C21_Witness ==
    /\ Typed
    /\ ty_col = <<"Min_Premium">>
    /\ ty_over = (ty_col :> "VARCHAR(64)")
    /\ ty_data = ColumnOf(<< <<"5", "0", "0", "0">> >>)
    /\ ty_mysql = "VARCHAR(64)" /\ ty_mssql_conv = "VARCHAR(64)"

\* The overrides name another column only: the column is typed INT.
C21_WitnessOther ==
    /\ Typed
    /\ ty_col = <<"Notes">>
    /\ ty_over = (<<"Extra">> :> "INT")
    /\ ty_data = ColumnOf(<< <<"5", "0", "0", "0">> >>)
    /\ ty_mysql = "INT" /\ ty_mssql = "INT"

\* ---------------------------------------------------------------- C22

\* A call that was handed records and returned without raising.
SavedRecords ==
    sv_pc = "ended" /\ sv_data # <<>> /\ save_status = "returned"

\* C22: after a successful save with recreate_table=True the table holds
\* exactly the rows of this call, one per record handed over and none
\* from earlier saves; after a successful save with recreate_table=False
\* every row the table held before is still there and the new rows are
\* added to them.
C22_RecreateReplacesElseAppends ==
    SavedRecords =>
        /\ sv_table.exists
        /\ sv_recreate => sv_table.rows = sv_data
        /\ ~sv_recreate => sv_table.rows = sv_before.rows \o sv_data

\* Two records saved with recreate_table=True into a table that held a
\* row: the two rows are what it holds.
C22_Witness ==
    /\ SavedRecords /\ sv_recreate
    /\ sv_before.rows = <<"old">>
    /\ sv_data = <<"a", "b">>
    /\ sv_table.rows = <<"a", "b">>

\* The same with recreate_table=False: three rows.
C22_WitnessAppend ==
    /\ SavedRecords /\ ~sv_recreate
    /\ sv_before.rows = <<"old">>
    /\ sv_data = <<"a", "b">>
    /\ sv_table.rows = <<"old", "a", "b">>

\* ---------------------------------------------------------------- C23

\* The rows the table holds when none of this call's batch is in it.
RowsWithoutBatch == IF sv_recreate THEN <<>> ELSE sv_before.rows

\* C23: if the bulk insert fails, the error is raised to the caller of the
\* save function and none of the rows of the batch is in the table.
C23_FailedInsertLeavesNoRow ==
    (sv_pc = "ended" /\ save_raised = "insert") =>
        /\ save_status = "raised"
        /\ sv_table.rows = RowsWithoutBatch

\* ---------------------------------------------------------------- C27

\* C27: a save function called with an empty list changes nothing: it
\* sends no statement at all (no connection, no CREATE DATABASE, no DROP
\* or CREATE TABLE), and the table is as it was, also with
\* recreate_table=True.
C27_EmptySaveChangesNothing ==
    (sv_pc = "ended" /\ sv_data = <<>>) =>
        /\ db_calls = <<>>
        /\ sv_table = sv_before
        /\ save_status = "returned"

\* An empty list saved with recreate_table=True into a table with a row.
C27_Witness ==
    /\ sv_pc = "ended" /\ sv_data = <<>> /\ sv_recreate
    /\ sv_before = [exists |-> TRUE, rows |-> <<"old">>]
    /\ sv_table = sv_before

\* ---------------------------------------------------------------- C26

ValueAt(i) == RowGet(ty_data[i], ty_col)
IsTextType(type) == type \notin {"INT", NUMERIC_DECIMAL_TYPE}

\* What the claim allows the INSERT to be handed for the value of row i:
\* not NULL, and the value itself when the column's type is a text type.
HandedOn(inserted, type, i) ==
    /\ inserted # NoneValue
    /\ IsTextType(type) => inserted = ValueAt(i)

\* C26: in both backends a value that is not an empty placeholder (None,
\* "", "-", "N/A") reaches the INSERT unchanged or as its numeric
\* conversion, never as NULL: the value of a text-typed column is
\* inserted as it is, and a value that does not convert to its column's
\* numeric type is not replaced by NULL.
C26_NoValueBecomesNull ==
    Typed =>
        \A i \in DOMAIN ty_data :
            ValueAt(i) \notin EmptyMarks =>
                /\ HandedOn(ty_mysql_values[i], ty_mysql_conv, i)
                /\ HandedOn(ty_mssql_values[i], ty_mssql_conv, i)

\* ---------------------------------------------------------------- C24

IsPreferred(k) == \E i \in DOMAIN preferred_order : preferred_order[i] = k
PreferredIndex(k) == CHOOSE i \in DOMAIN preferred_order : preferred_order[i] = k
\* The place of a key in the ascending order of the key strings, as
\* Python compares strings.
SortIndex(k) == CHOOSE i \in DOMAIN CsvSortedKeys : CsvSortedKeys[i] = k

KeysOfRecords == UNION {DOMAIN cv_data[i] : i \in DOMAIN cv_data}

\* C24: the header save_to_csv writes lists first the names of the
\* preferred list that are a key of some record, in the order of the
\* preferred list, then every other key of any record in ascending order
\* of the key strings; each key is there exactly once and none is missing.
C24_PreferredThenSorted ==
    cv_pc = "written" =>
        /\ {cv_header[i] : i \in DOMAIN cv_header} = KeysOfRecords
        /\ \A i, j \in DOMAIN cv_header :
              i < j =>
                 /\ cv_header[i] # cv_header[j]
                 /\ IsPreferred(cv_header[j]) =>
                       /\ IsPreferred(cv_header[i])
                       /\ PreferredIndex(cv_header[i]) < PreferredIndex(cv_header[j])
                 /\ ~IsPreferred(cv_header[i]) =>
                       SortIndex(cv_header[i]) < SortIndex(cv_header[j])

\* Two records with different keys, preferred and other ones: the header
\* has the three preferred names first, then the three others sorted.
C24_Witness ==
    /\ cv_pc = "written"
    /\ Len(cv_data) = 2
    /\ cv_header = << <<"Carrier_Product_Name">>, <<"AM_Best">>,
                      <<"Years_Rate_GTD">>, <<"Commission">>, NameLinks,
                      <<"Notes">>, <<"page_number">> >>

\* ---------------------------------------------------------------- C29

\* The records are records of a crawl: each is a row map_column_headers
\* made.
CrawlSaved ==
    /\ cv_pc = "written"
    /\ \A i \in DOMAIN cv_data : cv_data[i] \in CrawlRecords

\* C29: save_to_csv writes the records of a crawl in the positional order
\* of the table: every field name map_column_headers produces is in
\* preferred_order, so the header is the fields in table order (the
\* product name first, Commission last, when present) and no field is in
\* the sorted remainder.
C29_CrawlColumnsInTableOrder ==
    CrawlSaved =>
        /\ \A i \in DOMAIN column_mapping : IsPreferred(column_mapping[i][2])
        /\ cv_header = SelectSeq(SemanticNames, LAMBDA k : k \in KeysOfRecords)

\* --------------------------------------------------------------- C25
\* The loop body of the browser variant is about to stop on the page it was
\* handed as a repeated one: the page has rows and the signature kept
\* equals its own.
StopsAsDuplicate ==
    /\ variant = "browser" /\ pc = "fold"
    /\ page_data.rows # <<>>
    /\ IsRepeatedPage(last_page_data_signature,
                      create_page_signature(page_data.rows))

\* C25: the duplicate-page stop fires only on a page whose signature equals
\* that of the page requested immediately before it: the page before the
\* one stopped on had rows and the same sampled (name, rate) pairs, so a
\* page with rows that follows one or two empty-or-failed pages is never
\* stopped as a duplicate of a page before those.
C25_DuplicateOnlyOfPreviousPage ==
    LET n == Len(hist)
    IN  StopsAsDuplicate =>
            /\ n >= 2
            /\ hist[n - 1].kind = "data"
            /\ SampledPairs(hist[n - 1].rows) = SampledPairs(hist[n].rows)

\* --------------------------------------------------------------- C28
\* C28: a max_pages of 0 handed to the crawl is a cap like any other: the
\* crawl requests no more pages than the smallest cap does (one page, the
\* cap being looked at only once a page was requested in the browser
\* variant), so it never goes on as a crawl without a cap does.
C28_ZeroIsACap ==
    max_pages = <<0>> => Len(GetEvents) <= 1

\* --------------------------------------------------------------- C30
\* The positions of the log where scrape_page logged in again.
Relogins == {j \in 2..Len(log) : log[j].ev = "login"}

\* The re-logins that followed the request of page p.
ReloginsOf(p) == {j \in Relogins : log[j - 1] = Ev("get", p)}

\* The loop body is about to take in the page of a failed re-login.
AfterFailedRelogin ==
    /\ variant = "http" /\ pc = "fold"
    /\ Len(log) > 2 /\ log[Len(log)].ev = "login_failed"

\* The loop body is about to take in the page requested again after a
\* re-login.
AfterSecondRequest ==
    /\ variant = "http" /\ pc = "fold"
    /\ Len(log) > 2 /\ log[Len(log)].ev = "get" /\ log[Len(log) - 1].ev = "login"

\* What the log shows of the re-logins: each follows the request of a page,
\* no page has two of them, a failed one is followed by no request of the
\* page but by the loop body, a successful one by one request of the same
\* page and then by the loop body.
ReloginOnce ==
    \A j \in Relogins :
        /\ log[j - 1].ev = "get"
        /\ Cardinality(ReloginsOf(log[j - 1].arg)) = 1
        /\ j < Len(log) =>
              IF log[j + 1].ev = "login_failed"
              THEN /\ GetsOf(log[j - 1].arg) = 1
                   /\ j + 1 < Len(log) => log[j + 2] = Ev("fold", log[j - 1].arg)
              ELSE /\ log[j + 1] = Ev("get", log[j - 1].arg)
                   /\ GetsOf(log[j - 1].arg) = 2
                   /\ j + 1 < Len(log) => log[j + 2] = Ev("fold", log[j - 1].arg)

\* What scrape_page returns after a re-login: None when it failed, and
\* otherwise what the second response gave, for the page asked for.
ReloginResult ==
    LET n == Len(hist)
    IN  /\ AfterFailedRelogin =>
              /\ page_data = NonePage
              /\ n >= 1 /\ hist[n] = [page |-> page_num, kind |-> "failed", rows |-> <<>>]
        /\ AfterSecondRequest =>
              /\ log[Len(log)].arg = page_num
              /\ n >= 1 /\ hist[n] = HistEntry(page_num, page_data)

\* What the loop does with the page of a re-login: None is counted as an
\* empty page and adds no record, rows are added under the page's number.
ReloginFolded ==
    /\ AfterFailedRelogin =>
          /\ consecutive_empty_pages' = consecutive_empty_pages + 1
          /\ all_data' = all_data
    /\ (AfterSecondRequest /\ page_data.rows # <<>>) =>
          /\ consecutive_empty_pages' = 0
          /\ all_data' = all_data \o WithPageNumber(page_data.rows, page_num)

\* C30: in the HTTP variant a page answered by a redirect to the login page
\* makes scrape_page log in again exactly once; after a successful re-login
\* the same page is requested exactly once more and what that response
\* holds is the page's result, and after a failed one the page is None,
\* which raises the counter of consecutive empty pages by one and adds no
\* record.
C30_ReloginOnceThenOneRequest ==
    /\ [](variant = "http" => ReloginOnce /\ ReloginResult)
    /\ [][ReloginFolded]_vars

C30_Witness ==
    /\ variant = "http" /\ pc = "done"
    /\ \E j \in Relogins :
          /\ j + 2 <= Len(log)
          /\ log[j + 1].ev = "login_failed"
          /\ log[j + 2].ev = "fold"
    /\ \E j \in Relogins :
          /\ j + 2 <= Len(log)
          /\ log[j + 1].ev = "get"
          /\ log[j + 2].ev = "fold"
    /\ all_data # <<>>

====
